---- MODULE Spec2Model ----
(***************************************************************************)
(* A model of the agent subsystem of i4z_ide: the action taxonomy and the  *)
(* capability policy (src/agent/mod.rs), the executor                      *)
(* (src/agent/executor.rs) and the parser and batch loop                   *)
(* (src/agent/actions.rs).                                                 *)
(*                                                                         *)
(* Text is modelled as a sequence of text units (strings); an Option<T> is *)
(* the empty sequence (None) or a one-element sequence (Some).             *)
(***************************************************************************)
EXTENDS Naturals, Integers, Sequences, FiniteSets, TLC

VARIABLES
    capabilities,       \* DefaultAgentExecutor.capabilities
    current_directory,  \* DefaultAgentExecutor.current_directory
    fs,                 \* the filesystem: location -> node
    spawned,            \* every child process started so far, in order
    child,              \* the child process execute_action is blocked on (Option)
    message,            \* the text handed to process_agent_message (Option)
    actions,            \* local `actions` of process_agent_message
    responses,          \* local `responses` of process_agent_message
    pc,                 \* position of process_agent_message
    effects,            \* history: every filesystem and process call made so far
    formatted           \* the String format_agent_responses returned (Option)

vars == <<capabilities, current_directory, fs, spawned, child, message,
          actions, responses, pc, effects, formatted>>

None == <<>>
Some(x) == <<x>>

-----------------------------------------------------------------------------
(* TLA+ strings are atomic, so the names, tags and patterns whose          *)
(* characters the code looks at are spelled out here.                      *)

Spell(s) ==
    CASE s = "DIR"      -> <<"D", "I", "R">>
      [] s = "FILE"     -> <<"F", "I", "L", "E">>
      [] s = ".."       -> <<".", ".">>
      [] s = "a"        -> <<"a">>
      [] s = "b"        -> <<"b">>
      [] s = "x"        -> <<"x">>
      [] s = "X"        -> <<"X">>
      [] s = "c"        -> <<"c">>
      [] s = "c.txt"    -> <<"c", ".", "t", "x", "t">>
      [] s = "etcetera" -> <<"e", "t", "c", "e", "t", "e", "r", "a">>
      [] s = "d"        -> <<"d">>
      [] s = "f"        -> <<"f">>
      [] s = "g"        -> <<"g">>
      [] s = "h"        -> <<"h">>
      [] s = "k"        -> <<"k">>
      [] s = "n"        -> <<"n">>
      [] s = "p"        -> <<"p">>
      [] s = "t"        -> <<"t">>
      [] s = "w"        -> <<"w">>
      [] s = "ro"       -> <<"r", "o">>
      [] s = "zz"       -> <<"z", "z">>
      [] s = "etc"      -> <<"e", "t", "c">>
      [] s = "root"     -> <<"r", "o", "o", "t">>
      [] s = "sys"      -> <<"s", "y", "s">>
      [] s = "proc"     -> <<"p", "r", "o", "c">>
      [] s = "src"      -> <<"s", "r", "c">>
      [] s = "passwd"   -> <<"p", "a", "s", "s", "w", "d">>
      [] s = "main.rs"  -> <<"m", "a", "i", "n", ".", "r", "s">>
      [] s = "test.txt" -> <<"t", "e", "s", "t", ".", "t", "x", "t">>

-----------------------------------------------------------------------------
(* Paths: std::path::PathBuf as a root flag and a sequence of components.  *)

Path(abs, comps) == [abs |-> abs, comps |-> comps]
Abs(comps) == Path(TRUE, comps)
Rel(comps) == Path(FALSE, comps)

RECURSIVE JoinNames(_)
JoinNames(comps) ==
    IF comps = <<>> THEN ""
    ELSE IF Len(comps) = 1 THEN comps[1]
    ELSE comps[1] \o "/" \o JoinNames(Tail(comps))

\* Path::display
Display(p) == IF p.abs THEN "/" \o JoinNames(p.comps) ELSE JoinNames(p.comps)

\* the characters of a path as it is written
RECURSIVE PathChars(_, _)
PathChars(abs, comps) ==
    IF comps = <<>> THEN (IF abs THEN <<"/">> ELSE <<>>)
    ELSE IF Len(comps) = 1 THEN (IF abs THEN <<"/">> ELSE <<>>) \o Spell(comps[1])
    ELSE (IF abs THEN <<"/">> ELSE <<>>) \o Spell(comps[1]) \o <<"/">>
            \o PathChars(FALSE, Tail(comps))

\* a variant that compares the written paths (str::starts_with)
StartsWith_as_text(p, base) ==
    LET pt == PathChars(p.abs, p.comps)
        bt == PathChars(base.abs, base.comps)
    IN Len(bt) <= Len(pt) /\ SubSeq(pt, 1, Len(bt)) = bt

\* Path::starts_with: whole components, the root included
StartsWith(p, base) ==
    /\ p.abs = base.abs
    /\ Len(base.comps) <= Len(p.comps)
    /\ SubSeq(p.comps, 1, Len(base.comps)) = base.comps

\* Path::join: an absolute argument replaces the receiver
Join(base, p) == IF p.abs THEN p ELSE Path(base.abs, base.comps \o p.comps)

\* Path::parent: None for the root and for the empty path
ParentPath(p) ==
    IF p.comps = <<>> THEN None
    ELSE Some(Path(p.abs, SubSeq(p.comps, 1, Len(p.comps) - 1)))

-----------------------------------------------------------------------------
(* The capability policy.                                                  *)

RestrictedDefault == <<Abs(<<"etc">>), Abs(<<"root">>), Abs(<<"sys">>), Abs(<<"proc">>)>>

\* a variant of AgentCapabilities::default with command execution switched on
DefaultCapabilities_exec_on ==
    [can_read_files        |-> TRUE,
     can_write_files       |-> TRUE,
     can_execute_commands  |-> TRUE,
     can_modify_filesystem |-> TRUE,
     restricted_paths      |-> RestrictedDefault]

\* AgentCapabilities::default
DefaultCapabilities ==
    [can_read_files        |-> TRUE,
     can_write_files       |-> TRUE,
     can_execute_commands  |-> FALSE,
     can_modify_filesystem |-> TRUE,
     restricted_paths      |-> RestrictedDefault]

\* the default flags with one more restricted prefix, a file of the workspace
ProtectedFileCapabilities ==
    [can_read_files        |-> TRUE,
     can_write_files       |-> TRUE,
     can_execute_commands  |-> FALSE,
     can_modify_filesystem |-> TRUE,
     restricted_paths      |-> Append(RestrictedDefault, Abs(<<"w", "d", "g">>))]

\* the values with_capabilities may install: every combination of the flags
\* over the default restricted set, and a restricted set with one more prefix
CapabilitySets ==
    [can_read_files        : BOOLEAN,
     can_write_files       : BOOLEAN,
     can_execute_commands  : BOOLEAN,
     can_modify_filesystem : BOOLEAN,
     restricted_paths      : {RestrictedDefault}]
        \cup {ProtectedFileCapabilities}

is_path_restricted(caps, path) ==
    \E i \in 1..Len(caps.restricted_paths) :
        StartsWith(path, caps.restricted_paths[i])

\* a variant that removes `..` segments with the segment before them
RECURSIVE Normalized(_, _)
Normalized(done, comps) ==
    IF comps = <<>> THEN done
    ELSE IF Head(comps) = ".."
         THEN Normalized(IF done = <<>> THEN <<>> ELSE SubSeq(done, 1, Len(done) - 1),
                         Tail(comps))
    ELSE Normalized(Append(done, Head(comps)), Tail(comps))

resolve_path_normalized(cwd, path) ==
    LET joined == IF path.abs THEN path ELSE Join(cwd, path)
    IN Path(joined.abs, Normalized(<<>>, joined.comps))

resolve_path(cwd, path) == IF path.abs THEN path ELSE Join(cwd, path)

-----------------------------------------------------------------------------
(* The action taxonomy (AgentAction).                                      *)

ReadFile(p)           == [kind |-> "ReadFile", path |-> p]
WriteFile(p, c)       == [kind |-> "WriteFile", path |-> p, content |-> c]
CreateDirectory(p)    == [kind |-> "CreateDirectory", path |-> p]
DeleteFile(p)         == [kind |-> "DeleteFile", path |-> p]
ExecuteCommand(c, wd) == [kind |-> "ExecuteCommand", command |-> c, working_dir |-> wd]
SearchFiles(pat, dir) == [kind |-> "SearchFiles", pattern |-> pat, directory |-> dir]
ReplaceInFile(p, o, n) == [kind |-> "ReplaceInFile", path |-> p, old |-> o, new |-> n]
ListDirectory(p)      == [kind |-> "ListDirectory", path |-> p]
GetFileInfo(p)        == [kind |-> "GetFileInfo", path |-> p]

\* a variant of is_safe_action whose WriteFile arm reads the read capability
is_safe_action_write_by_read(caps, cwd, action) ==
    CASE action.kind \in {"ReadFile", "WriteFile", "ListDirectory", "GetFileInfo"} ->
            caps.can_read_files /\ ~is_path_restricted(caps, resolve_path(cwd, action.path))
      [] action.kind = "ReplaceInFile" ->
            caps.can_write_files /\ ~is_path_restricted(caps, resolve_path(cwd, action.path))
      [] action.kind \in {"CreateDirectory", "DeleteFile"} ->
            caps.can_modify_filesystem /\ ~is_path_restricted(caps, resolve_path(cwd, action.path))
      [] action.kind = "ExecuteCommand" ->
            caps.can_execute_commands
      [] action.kind = "SearchFiles" ->
            IF action.directory # None
            THEN ~is_path_restricted(caps, resolve_path(cwd, action.directory[1]))
            ELSE ~is_path_restricted(caps, cwd)

\* a variant of is_safe_action whose SearchFiles arm asks for the read capability
is_safe_action_search_by_read(caps, cwd, action) ==
    CASE action.kind \in {"ReadFile", "ListDirectory", "GetFileInfo"} ->
            caps.can_read_files /\ ~is_path_restricted(caps, resolve_path(cwd, action.path))
      [] action.kind \in {"WriteFile", "ReplaceInFile"} ->
            caps.can_write_files /\ ~is_path_restricted(caps, resolve_path(cwd, action.path))
      [] action.kind \in {"CreateDirectory", "DeleteFile"} ->
            caps.can_modify_filesystem /\ ~is_path_restricted(caps, resolve_path(cwd, action.path))
      [] action.kind = "ExecuteCommand" ->
            caps.can_execute_commands
      [] action.kind = "SearchFiles" ->
            /\ caps.can_read_files
            /\ IF action.directory # None
               THEN ~is_path_restricted(caps, resolve_path(cwd, action.directory[1]))
               ELSE ~is_path_restricted(caps, cwd)

\* a variant of is_safe_action whose ExecuteCommand arm tests the directory
\* the command is to run in
is_safe_action_command_dir_checked(caps, cwd, action) ==
    CASE action.kind \in {"ReadFile", "ListDirectory", "GetFileInfo"} ->
            caps.can_read_files /\ ~is_path_restricted(caps, resolve_path(cwd, action.path))
      [] action.kind \in {"WriteFile", "ReplaceInFile"} ->
            caps.can_write_files /\ ~is_path_restricted(caps, resolve_path(cwd, action.path))
      [] action.kind \in {"CreateDirectory", "DeleteFile"} ->
            caps.can_modify_filesystem /\ ~is_path_restricted(caps, resolve_path(cwd, action.path))
      [] action.kind = "ExecuteCommand" ->
            /\ caps.can_execute_commands
            /\ ~is_path_restricted(caps,
                    IF action.working_dir # None THEN action.working_dir[1] ELSE cwd)
      [] action.kind = "SearchFiles" ->
            IF action.directory # None
            THEN ~is_path_restricted(caps, resolve_path(cwd, action.directory[1]))
            ELSE ~is_path_restricted(caps, cwd)

is_safe_action(caps, cwd, action) ==
    CASE action.kind = "ReadFile" ->
            caps.can_read_files /\ ~is_path_restricted(caps, resolve_path(cwd, action.path))
      [] action.kind = "WriteFile" ->
            caps.can_write_files /\ ~is_path_restricted(caps, resolve_path(cwd, action.path))
      [] action.kind = "CreateDirectory" ->
            caps.can_modify_filesystem /\ ~is_path_restricted(caps, resolve_path(cwd, action.path))
      [] action.kind = "DeleteFile" ->
            caps.can_modify_filesystem /\ ~is_path_restricted(caps, resolve_path(cwd, action.path))
      [] action.kind = "ExecuteCommand" ->
            caps.can_execute_commands
      [] action.kind = "SearchFiles" ->
            IF action.directory # None
            THEN ~is_path_restricted(caps, resolve_path(cwd, action.directory[1]))
            ELSE ~is_path_restricted(caps, cwd)
      [] action.kind = "ReplaceInFile" ->
            caps.can_write_files /\ ~is_path_restricted(caps, resolve_path(cwd, action.path))
      [] action.kind = "ListDirectory" ->
            caps.can_read_files /\ ~is_path_restricted(caps, resolve_path(cwd, action.path))
      [] action.kind = "GetFileInfo" ->
            caps.can_read_files /\ ~is_path_restricted(caps, resolve_path(cwd, action.path))

\* the path is_safe_action hands to is_path_restricted (None for a command)
tested_path(cwd, action) ==
    CASE action.kind = "ExecuteCommand" -> None
      [] action.kind = "SearchFiles" ->
            IF action.directory # None
            THEN Some(resolve_path(cwd, action.directory[1]))
            ELSE Some(cwd)
      [] OTHER -> Some(resolve_path(cwd, action.path))

-----------------------------------------------------------------------------
(* AgentResponse and its two constructors.                                 *)

AgentResponse_success(msg, data) ==
    [success |-> TRUE, message |-> msg, data |-> data, error |-> None]

\* a variant of AgentResponse::error that files the error text under data
AgentResponse_error_in_data(msg, err) ==
    [success |-> FALSE, message |-> msg, data |-> Some(err), error |-> None]

AgentResponse_error(msg, err) ==
    [success |-> FALSE, message |-> msg, data |-> None, error |-> Some(err)]

-----------------------------------------------------------------------------
(* The filesystem collaborator (std::fs over a POSIX filesystem without    *)
(* symlinks).  A location is the sequence of names from the root; a node   *)
(* is a file, a directory or another kind of entry (a socket).  `w` is the *)
(* write permission: on a directory, the right to add and remove entries.  *)

FileNode(c)  == [kind |-> "file",  content |-> c,    w |-> TRUE]
DirNode(w)   == [kind |-> "dir",   content |-> <<>>, w |-> w]
OtherNode    == [kind |-> "other", content |-> <<>>, w |-> TRUE]

\* the working directory of the host process
ProcessCwd == <<"w">>

ParentLoc(loc) == IF loc = <<>> THEN <<>> ELSE SubSeq(loc, 1, Len(loc) - 1)
Exists(f, loc) == loc \in DOMAIN f
IsDirAt(f, loc) == Exists(f, loc) /\ f[loc].kind = "dir"
Children(f, loc) ==
    {l \in DOMAIN f : Len(l) = Len(loc) + 1 /\ SubSeq(l, 1, Len(loc)) = loc}
Subtree(f, loc) ==
    {l \in DOMAIN f : Len(l) >= Len(loc) /\ SubSeq(l, 1, Len(loc)) = loc}
Without(f, locs) == [l \in DOMAIN f \ locs |-> f[l]]
With(f, loc, node) == [l \in DOMAIN f \cup {loc} |-> IF l = loc THEN node ELSE f[l]]

\* io::Error::to_string for the errno values the model produces
ErrText(e) ==
    CASE e = "ENOENT"  -> <<"No such file or directory (os error 2)">>
      [] e = "ENOTDIR" -> <<"Not a directory (os error 20)">>
      [] e = "EISDIR"  -> <<"Is a directory (os error 21)">>
      [] e = "EACCES"  -> <<"Permission denied (os error 13)">>
      [] e = "EEXIST"  -> <<"File exists (os error 17)">>
      [] e = "ENXIO"   -> <<"No such device or address (os error 6)">>

\* Path lookup by the kernel: every component is stepped from an existing
\* directory; `..` steps to the parent.  The final location may be absent.
RECURSIVE Walk(_, _, _)
Walk(f, loc, comps) ==
    IF comps = <<>> THEN [ok |-> TRUE, loc |-> loc, err |-> ""]
    ELSE IF ~Exists(f, loc) THEN [ok |-> FALSE, loc |-> loc, err |-> "ENOENT"]
    ELSE IF f[loc].kind # "dir" THEN [ok |-> FALSE, loc |-> loc, err |-> "ENOTDIR"]
    ELSE IF Head(comps) = ".." THEN Walk(f, ParentLoc(loc), Tail(comps))
    ELSE Walk(f, Append(loc, Head(comps)), Tail(comps))

Lookup(f, p) == Walk(f, IF p.abs THEN <<>> ELSE ProcessCwd, p.comps)

IoOk(f, v)  == [ok |-> TRUE,  fs |-> f, val |-> v,    err |-> ""]
IoErr(f, e) == [ok |-> FALSE, fs |-> f, val |-> <<>>, err |-> e]

\* fs::metadata
fs_metadata(f, p) ==
    LET l == Lookup(f, p) IN
    IF ~l.ok THEN IoErr(f, l.err)
    ELSE IF ~Exists(f, l.loc) THEN IoErr(f, "ENOENT")
    ELSE IoOk(f, f[l.loc])

\* Path::is_file and Path::is_dir: false when the metadata call fails
is_file(f, p) == LET m == fs_metadata(f, p) IN m.ok /\ m.val.kind = "file"
is_dir(f, p)  == LET m == fs_metadata(f, p) IN m.ok /\ m.val.kind = "dir"

\* fs::read_to_string
fs_read_to_string(f, p) ==
    LET l == Lookup(f, p) IN
    IF ~l.ok THEN IoErr(f, l.err)
    ELSE IF ~Exists(f, l.loc) THEN IoErr(f, "ENOENT")
    ELSE IF f[l.loc].kind = "dir" THEN IoErr(f, "EISDIR")
    ELSE IF f[l.loc].kind = "other" THEN IoErr(f, "ENXIO")
    ELSE IoOk(f, f[l.loc].content)

\* fs::write: create or truncate, then write the whole content
fs_write(f, p, c) ==
    LET l == Lookup(f, p) IN
    IF ~l.ok THEN IoErr(f, l.err)
    ELSE IF Exists(f, l.loc) THEN
        IF f[l.loc].kind = "dir" THEN IoErr(f, "EISDIR")
        ELSE IF f[l.loc].kind = "other" THEN IoErr(f, "ENXIO")
        ELSE IF ~f[l.loc].w THEN IoErr(f, "EACCES")
        ELSE IoOk(With(f, l.loc, [f[l.loc] EXCEPT !.content = c]), <<>>)
    ELSE IF ~IsDirAt(f, ParentLoc(l.loc)) THEN IoErr(f, "ENOENT")
    ELSE IF ~f[ParentLoc(l.loc)].w THEN IoErr(f, "EACCES")
    ELSE IoOk(With(f, l.loc, FileNode(c)), <<>>)

\* fs::create_dir (mkdir)
fs_create_dir(f, p) ==
    LET l == Lookup(f, p) IN
    IF p.comps = <<>> THEN IoErr(f, IF p.abs THEN "EEXIST" ELSE "ENOENT")
    ELSE IF ~l.ok THEN IoErr(f, l.err)
    ELSE IF Exists(f, l.loc) THEN IoErr(f, "EEXIST")
    ELSE IF ~f[ParentLoc(l.loc)].w THEN IoErr(f, "EACCES")
    ELSE IoOk(With(f, l.loc, DirNode(TRUE)), <<>>)

\* fs::create_dir_all (DirBuilder::create_dir_all): mkdir; on NotFound create
\* the parent first and retry; any other error is success iff the path is a
\* directory.  Directories created before a failure stay.
RECURSIVE fs_create_dir_all(_, _)
fs_create_dir_all(f, p) ==
    IF p.comps = <<>> THEN IoOk(f, <<>>)
    ELSE
      LET r == fs_create_dir(f, p) IN
      IF r.ok THEN r
      ELSE IF r.err = "ENOENT" THEN
          LET pr == fs_create_dir_all(f, ParentPath(p)[1]) IN
          IF ~pr.ok THEN pr
          ELSE LET r2 == fs_create_dir(pr.fs, p) IN
               IF r2.ok \/ is_dir(pr.fs, p) THEN IoOk(r2.fs, <<>>)
               ELSE IoErr(pr.fs, r2.err)
      ELSE IF is_dir(f, p) THEN IoOk(f, <<>>)
      ELSE r

\* fs::remove_file (unlink)
fs_remove_file(f, p) ==
    LET l == Lookup(f, p) IN
    IF ~l.ok THEN IoErr(f, l.err)
    ELSE IF ~Exists(f, l.loc) THEN IoErr(f, "ENOENT")
    ELSE IF f[l.loc].kind = "dir" THEN IoErr(f, "EISDIR")
    ELSE IF ~f[ParentLoc(l.loc)].w THEN IoErr(f, "EACCES")
    ELSE IoOk(Without(f, {l.loc}), <<>>)

\* fs::remove_dir_all: every entry below the directory, then the directory.
\* It fails when an entry to remove lies in a directory without write
\* permission.  The entries are visited in directory order, which is not
\* specified; the model keeps the filesystem as it was on failure, and no
\* action of the model names a directory that mixes removable and
\* unremovable entries.
fs_remove_dir_all(f, p) ==
    LET l == Lookup(f, p) IN
    IF ~l.ok THEN IoErr(f, l.err)
    ELSE IF ~Exists(f, l.loc) THEN IoErr(f, "ENOENT")
    ELSE IF f[l.loc].kind # "dir" THEN IoErr(f, "ENOTDIR")
    ELSE IF l.loc = <<>> THEN IoErr(f, "EACCES")
    ELSE IF \E e \in Subtree(f, l.loc) : ~f[ParentLoc(e)].w THEN IoErr(f, "EACCES")
    ELSE IoOk(Without(f, Subtree(f, l.loc)), <<>>)

\* fs::read_dir: the names of the immediate entries
fs_read_dir(f, p) ==
    LET l == Lookup(f, p) IN
    IF ~l.ok THEN IoErr(f, l.err)
    ELSE IF ~Exists(f, l.loc) THEN IoErr(f, "ENOENT")
    ELSE IF f[l.loc].kind # "dir" THEN IoErr(f, "ENOTDIR")
    ELSE IoOk(f, {c[Len(c)] : c \in Children(f, l.loc)})

\* one entry of the history of filesystem and process calls
Sys(op, p, ok) == [op |-> op, path |-> p, ok |-> ok]

-----------------------------------------------------------------------------
(* Characters: the order of str, and the str operations of the code.       *)

\* the ASCII code of a character
Ascii(c) ==
    CASE c = " " -> 32  [] c = "." -> 46
      [] c = "D" -> 68  [] c = "E" -> 69  [] c = "F" -> 70  [] c = "I" -> 73
      [] c = "L" -> 76  [] c = "R" -> 82  [] c = "X" -> 88
      [] c = "a" -> 97  [] c = "c" -> 99  [] c = "d" -> 100 [] c = "e" -> 101
      [] c = "f" -> 102 [] c = "g" -> 103 [] c = "h" -> 104 [] c = "i" -> 105
      [] c = "k" -> 107 [] c = "m" -> 109 [] c = "n" -> 110 [] c = "o" -> 111
      [] c = "p" -> 112 [] c = "r" -> 114 [] c = "s" -> 115 [] c = "t" -> 116
      [] c = "w" -> 119 [] c = "x" -> 120 [] c = "z" -> 122

\* Ord for str: bytewise lexicographic
RECURSIVE LexLeq(_, _)
LexLeq(a, b) ==
    IF a = <<>> THEN TRUE
    ELSE IF b = <<>> THEN FALSE
    ELSE IF Ascii(Head(a)) # Ascii(Head(b)) THEN Ascii(Head(a)) < Ascii(Head(b))
    ELSE LexLeq(Tail(a), Tail(b))

\* str::contains
Contains(hay, needle) ==
    \E i \in 0..(Len(hay) - Len(needle)) :
        SubSeq(hay, i + 1, i + Len(needle)) = needle

\* str::replace: every non-overlapping occurrence, left to right
RECURSIVE Replace(_, _, _)
Replace(s, old, new) ==
    IF old = <<>> THEN
        IF s = <<>> THEN new ELSE new \o <<Head(s)>> \o Replace(Tail(s), old, new)
    ELSE IF Len(s) < Len(old) THEN s
    ELSE IF SubSeq(s, 1, Len(old)) = old
         THEN new \o Replace(SubSeq(s, Len(old) + 1, Len(s)), old, new)
    ELSE <<Head(s)>> \o Replace(Tail(s), old, new)

\* format!("{:<6}", tag): left-aligned in a field of six
RECURSIVE PadRight(_, _)
PadRight(chars, width) ==
    IF Len(chars) >= width THEN chars ELSE PadRight(Append(chars, " "), width)

RECURSIVE Concat(_)
Concat(chars) == IF chars = <<>> THEN "" ELSE Head(chars) \o Concat(Tail(chars))

\* [T]::join over text units
RECURSIVE JoinWith(_, _)
JoinWith(items, sep) ==
    IF items = <<>> THEN <<>>
    ELSE IF Len(items) = 1 THEN <<items[1]>>
    ELSE <<items[1], sep>> \o JoinWith(Tail(items), sep)

\* one item of ListDirectory: format!("{:<6} {}", file_type, name)
ListItem(file_type, name) == PadRight(Spell(file_type), 6) \o <<" ">> \o Spell(name)

\* a variant that sorts the items by the name that follows the type tag
RECURSIVE SortItems_by_name(_)
SortItems_by_name(items) ==
    IF items = {} THEN <<>>
    ELSE LET name(x) == SubSeq(x, 8, Len(x))
             first == CHOOSE x \in items : \A y \in items : LexLeq(name(x), name(y))
         IN <<first>> \o SortItems_by_name(items \ {first})

\* Vec<String>::sort
RECURSIVE SortItems(_)
SortItems(items) ==
    IF items = {} THEN <<>>
    ELSE LET first == CHOOSE x \in items : \A y \in items : LexLeq(x, y)
         IN <<first>> \o SortItems(items \ {first})

\* the orders in which read_dir may yield a set of entries
Orders(S) ==
    {o \in [1..Cardinality(S) -> S] : \A i, j \in 1..Cardinality(S) : i # j => o[i] # o[j]}

-----------------------------------------------------------------------------
(* The host shell collaborator: what `sh -c command` does in directory     *)
(* `dir` (a location): the filesystem after it, what it wrote to stdout    *)
(* and stderr, and its exit code.                                          *)

ShellRun(command, f, dir) ==
    CASE command = "echo hi" ->
            [fs |-> f, stdout |-> <<"hi", "\n">>, stderr |-> <<>>, code |-> 0]
      [] command = "false" ->
            [fs |-> f, stdout |-> <<>>, stderr |-> <<>>, code |-> 1]
      [] command = "echo hi >&2" ->
            [fs |-> f, stdout |-> <<>>, stderr |-> <<"hi", "\n">>, code |-> 0]
      [] command = "echo hi; false" ->
            [fs |-> f, stdout |-> <<"hi", "\n">>, stderr |-> <<>>, code |-> 1]
      [] command = "touch t" ->
            LET t == Append(dir, "t") IN
            IF Exists(f, t) THEN
                [fs |-> f, stdout |-> <<>>, stderr |-> <<>>, code |-> 0]
            ELSE IF IsDirAt(f, dir) /\ f[dir].w THEN
                [fs |-> With(f, t, FileNode(<<>>)), stdout |-> <<>>, stderr |-> <<>>,
                 code |-> 0]
            ELSE
                [fs |-> f, stdout |-> <<>>,
                 stderr |-> <<"touch: cannot touch 't': Permission denied", "\n">>,
                 code |-> 1]

-----------------------------------------------------------------------------
(* DefaultAgentExecutor::execute_action.  Every arm yields the Result it   *)
(* returns, the filesystem it leaves and the calls it made.                *)

Ok(v)  == [ok |-> TRUE,  val |-> v]
Err(e) == [ok |-> FALSE, val |-> e]
Ret(result, f, ops) == [result |-> result, fs |-> f, ops |-> ops]

NotPermitted ==
    AgentResponse_error(<<"Action not permitted">>,
                        <<"This action is restricted by the current capabilities">>)

\* a variant of the ReadFile arm that hands the read error to the caller (`?`)
exec_ReadFile_propagates(cwd, f, action) ==
    LET resolved_path == resolve_path(cwd, action.path)
        r == fs_read_to_string(f, resolved_path)
        ops == <<Sys("read_to_string", resolved_path, r.ok)>>
    IN IF r.ok
       THEN Ret(Ok(AgentResponse_success(
                <<"Successfully read file: ", Display(resolved_path)>>, Some(r.val))),
                r.fs, ops)
       ELSE Ret(Err(ErrText(r.err)), r.fs, ops)

exec_ReadFile(cwd, f, action) ==
    LET resolved_path == resolve_path(cwd, action.path)
        r == fs_read_to_string(f, resolved_path)
        ops == <<Sys("read_to_string", resolved_path, r.ok)>>
    IN IF r.ok
       THEN Ret(Ok(AgentResponse_success(
                <<"Successfully read file: ", Display(resolved_path)>>, Some(r.val))),
                r.fs, ops)
       ELSE Ret(Ok(AgentResponse_error(
                <<"Failed to read file: ", Display(resolved_path)>>, ErrText(r.err))),
                r.fs, ops)

\* a variant that writes without creating the parent directories first
exec_WriteFile_no_parents(cwd, f, action) ==
    LET resolved_path == resolve_path(cwd, action.path)
        r == fs_write(f, resolved_path, action.content)
        ops == <<Sys("write", resolved_path, r.ok)>>
    IN IF r.ok
       THEN Ret(Ok(AgentResponse_success(
                <<"Successfully wrote file: ", Display(resolved_path)>>, None)),
                r.fs, ops)
       ELSE Ret(Ok(AgentResponse_error(
                <<"Failed to write file: ", Display(resolved_path)>>, ErrText(r.err))),
                r.fs, ops)

\* a variant that goes on to the write when the parents could not be created
exec_WriteFile_ignores_parent_failure(cwd, f, action) ==
    LET resolved_path == resolve_path(cwd, action.path)
        parent == ParentPath(resolved_path)
        d == IF parent # None THEN fs_create_dir_all(f, parent[1]) ELSE IoOk(f, <<>>)
        ops1 == IF parent # None THEN <<Sys("create_dir_all", parent[1], d.ok)>> ELSE <<>>
        r == fs_write(d.fs, resolved_path, action.content)
        ops2 == ops1 \o <<Sys("write", resolved_path, r.ok)>>
    IN IF r.ok
       THEN Ret(Ok(AgentResponse_success(
                <<"Successfully wrote file: ", Display(resolved_path)>>, None)),
                r.fs, ops2)
       ELSE Ret(Ok(AgentResponse_error(
                <<"Failed to write file: ", Display(resolved_path)>>, ErrText(r.err))),
                r.fs, ops2)

exec_WriteFile(cwd, f, action) ==
    LET resolved_path == resolve_path(cwd, action.path)
        parent == ParentPath(resolved_path)
        d == IF parent # None THEN fs_create_dir_all(f, parent[1]) ELSE IoOk(f, <<>>)
        ops1 == IF parent # None THEN <<Sys("create_dir_all", parent[1], d.ok)>> ELSE <<>>
        r == fs_write(d.fs, resolved_path, action.content)
        ops2 == ops1 \o <<Sys("write", resolved_path, r.ok)>>
    IN IF ~d.ok
       THEN Ret(Ok(AgentResponse_error(
                <<"Failed to create parent directories">>, ErrText(d.err))), d.fs, ops1)
       ELSE IF r.ok
       THEN Ret(Ok(AgentResponse_success(
                <<"Successfully wrote file: ", Display(resolved_path)>>, None)),
                r.fs, ops2)
       ELSE Ret(Ok(AgentResponse_error(
                <<"Failed to write file: ", Display(resolved_path)>>, ErrText(r.err))),
                r.fs, ops2)

\* a variant that calls fs::create_dir, which fails on an existing directory
exec_CreateDirectory_not_recursive(cwd, f, action) ==
    LET resolved_path == resolve_path(cwd, action.path)
        r == fs_create_dir(f, resolved_path)
        ops == <<Sys("create_dir_all", resolved_path, r.ok)>>
    IN IF r.ok
       THEN Ret(Ok(AgentResponse_success(
                <<"Successfully created directory: ", Display(resolved_path)>>, None)),
                r.fs, ops)
       ELSE Ret(Ok(AgentResponse_error(
                <<"Failed to create directory: ", Display(resolved_path)>>,
                ErrText(r.err))), r.fs, ops)

exec_CreateDirectory(cwd, f, action) ==
    LET resolved_path == resolve_path(cwd, action.path)
        r == fs_create_dir_all(f, resolved_path)
        ops == <<Sys("create_dir_all", resolved_path, r.ok)>>
    IN IF r.ok
       THEN Ret(Ok(AgentResponse_success(
                <<"Successfully created directory: ", Display(resolved_path)>>, None)),
                r.fs, ops)
       ELSE Ret(Ok(AgentResponse_error(
                <<"Failed to create directory: ", Display(resolved_path)>>,
                ErrText(r.err))), r.fs, ops)

exec_DeleteFile(cwd, f, action) ==
    LET resolved_path == resolve_path(cwd, action.path)
        isf == is_file(f, resolved_path)
        isd == is_dir(f, resolved_path)
        r == IF isf THEN fs_remove_file(f, resolved_path)
             ELSE fs_remove_dir_all(f, resolved_path)
        stat1 == <<Sys("metadata", resolved_path, fs_metadata(f, resolved_path).ok)>>
    IN IF ~isf /\ ~isd
       THEN Ret(Ok(AgentResponse_error(
                <<"Path does not exist">>,
                <<"Path ", Display(resolved_path), " does not exist">>)),
                f, stat1 \o stat1)
       ELSE IF r.ok
       THEN Ret(Ok(AgentResponse_success(
                <<"Successfully deleted: ", Display(resolved_path)>>, None)), r.fs,
                IF isf THEN stat1 \o <<Sys("remove_file", resolved_path, TRUE)>>
                ELSE stat1 \o stat1 \o <<Sys("remove_dir_all", resolved_path, TRUE)>>)
       ELSE Ret(Ok(AgentResponse_error(
                <<"Failed to delete: ", Display(resolved_path)>>, ErrText(r.err))), r.fs,
                IF isf THEN stat1 \o <<Sys("remove_file", resolved_path, FALSE)>>
                ELSE stat1 \o stat1 \o <<Sys("remove_dir_all", resolved_path, FALSE)>>)

\* a variant that reports a directory that cannot be listed as an error
exec_SearchFiles_fails_on_listing(cwd, f, action, order) ==
    LET search_dir == IF action.directory # None THEN action.directory[1] ELSE cwd
        resolved_dir == resolve_path(cwd, search_dir)
        r == fs_read_dir(f, resolved_dir)
        matches == [i \in 1..Len(order) |-> Display(Join(resolved_dir, Rel(<<order[i]>>)))]
    IN IF r.ok
       THEN Ret(Ok(AgentResponse_success(
                <<"Found ", ToString(Len(matches)), " matches for pattern '",
                  action.pattern, "'">>,
                Some(JoinWith(matches, "\n")))),
                f, <<Sys("read_dir", resolved_dir, TRUE)>>)
       ELSE Ret(Ok(AgentResponse_error(
                <<"Failed to search directory: ", Display(resolved_dir)>>,
                ErrText(r.err))),
                f, <<Sys("read_dir", resolved_dir, FALSE)>>)

\* `order` is the order in which read_dir yields the matching entries
exec_SearchFiles(cwd, f, action, order) ==
    LET search_dir == IF action.directory # None THEN action.directory[1] ELSE cwd
        resolved_dir == resolve_path(cwd, search_dir)
        r == fs_read_dir(f, resolved_dir)
        matches == IF r.ok
                   THEN [i \in 1..Len(order) |->
                            Display(Join(resolved_dir, Rel(<<order[i]>>)))]
                   ELSE <<>>
    IN Ret(Ok(AgentResponse_success(
            <<"Found ", ToString(Len(matches)), " matches for pattern '",
              action.pattern, "'">>,
            Some(JoinWith(matches, "\n")))),
           f, <<Sys("read_dir", resolved_dir, r.ok)>>)

\* the entries of the searched directory whose file name contains the pattern
SearchMatches(cwd, f, action) ==
    LET search_dir == IF action.directory # None THEN action.directory[1] ELSE cwd
        r == fs_read_dir(f, resolve_path(cwd, search_dir))
    IN IF r.ok THEN {n \in r.val : Contains(Spell(n), Spell(action.pattern))} ELSE {}

exec_ReplaceInFile(cwd, f, action) ==
    LET resolved_path == resolve_path(cwd, action.path)
        r == fs_read_to_string(f, resolved_path)
        new_content == Replace(r.val, action.old, action.new)
        wr == fs_write(f, resolved_path, new_content)
        ops1 == <<Sys("read_to_string", resolved_path, r.ok)>>
    IN IF ~r.ok
       THEN Ret(Ok(AgentResponse_error(
                <<"Failed to read file: ", Display(resolved_path)>>, ErrText(r.err))),
                f, ops1)
       ELSE IF wr.ok
       THEN Ret(Ok(AgentResponse_success(
                <<"Successfully replaced text in: ", Display(resolved_path)>>, None)),
                wr.fs, ops1 \o <<Sys("write", resolved_path, TRUE)>>)
       ELSE Ret(Ok(AgentResponse_error(
                <<"Failed to write file: ", Display(resolved_path)>>, ErrText(wr.err))),
                wr.fs, ops1 \o <<Sys("write", resolved_path, FALSE)>>)

\* a variant that treats a listing failure as SearchFiles does (`if let Ok`)
exec_ListDirectory_swallows(cwd, f, action) ==
    LET resolved_path == resolve_path(cwd, action.path)
        r == fs_read_dir(f, resolved_path)
        items == IF r.ok
                 THEN {ListItem(IF is_dir(f, Join(resolved_path, Rel(<<n>>)))
                                THEN "DIR" ELSE "FILE", n) : n \in r.val}
                 ELSE {}
        sorted == SortItems(items)
        lines == [i \in 1..Len(sorted) |-> Concat(sorted[i])]
    IN Ret(Ok(AgentResponse_success(
            <<"Listed directory: ", Display(resolved_path)>>,
            Some(JoinWith(lines, "\n")))), f, <<Sys("read_dir", resolved_path, r.ok)>>)

exec_ListDirectory(cwd, f, action) ==
    LET resolved_path == resolve_path(cwd, action.path)
        r == fs_read_dir(f, resolved_path)
        items == {ListItem(IF is_dir(f, Join(resolved_path, Rel(<<n>>)))
                           THEN "DIR" ELSE "FILE", n) : n \in r.val}
        sorted == SortItems(items)
        lines == [i \in 1..Len(sorted) |-> Concat(sorted[i])]
        ops == <<Sys("read_dir", resolved_path, r.ok)>>
    IN IF r.ok
       THEN Ret(Ok(AgentResponse_success(
                <<"Listed directory: ", Display(resolved_path)>>,
                Some(JoinWith(lines, "\n")))), f, ops)
       ELSE Ret(Ok(AgentResponse_error(
                <<"Failed to list directory: ", Display(resolved_path)>>,
                ErrText(r.err))), f, ops)

exec_GetFileInfo(cwd, f, action) ==
    LET resolved_path == resolve_path(cwd, action.path)
        r == fs_metadata(f, resolved_path)
        metadata == r.val
        file_type == IF metadata.kind = "dir" THEN "Directory"
                     ELSE IF metadata.kind = "file" THEN "File" ELSE "Other"
        size == IF metadata.kind = "file"
                THEN ToString(Len(metadata.content)) \o " bytes" ELSE "N/A"
        info == <<"Path: ", Display(resolved_path), "\nType: ", file_type,
                  "\nSize: ", size, "\nReadonly: ",
                  IF metadata.w THEN "false" ELSE "true">>
        ops == <<Sys("metadata", resolved_path, r.ok)>>
    IN IF r.ok
       THEN Ret(Ok(AgentResponse_success(
                <<"File info for: ", Display(resolved_path)>>, Some(info))), f, ops)
       ELSE Ret(Ok(AgentResponse_error(
                <<"Failed to get file info: ", Display(resolved_path)>>,
                ErrText(r.err))), f, ops)

\* the arms of the match for every kind but ExecuteCommand
dispatch(cwd, f, action, order) ==
    CASE action.kind = "ReadFile"        -> exec_ReadFile(cwd, f, action)
      [] action.kind = "WriteFile"       -> exec_WriteFile(cwd, f, action)
      [] action.kind = "CreateDirectory" -> exec_CreateDirectory(cwd, f, action)
      [] action.kind = "DeleteFile"      -> exec_DeleteFile(cwd, f, action)
      [] action.kind = "SearchFiles"     -> exec_SearchFiles(cwd, f, action, order)
      [] action.kind = "ReplaceInFile"   -> exec_ReplaceInFile(cwd, f, action)
      [] action.kind = "ListDirectory"   -> exec_ListDirectory(cwd, f, action)
      [] action.kind = "GetFileInfo"     -> exec_GetFileInfo(cwd, f, action)

\* the gate at the head of execute_action
denied(caps, cwd, action) == ~is_safe_action(caps, cwd, action)

\* a variant of execute_action that looks at the gate after the dispatch
execute_action_gate_late(caps, cwd, f, action, order) ==
    IF action.kind = "ExecuteCommand" THEN Ret(Ok(NotPermitted), f, <<>>)
    ELSE LET out == dispatch(cwd, f, action, order) IN
         IF denied(caps, cwd, action) THEN Ret(Ok(NotPermitted), out.fs, out.ops)
         ELSE out

\* execute_action for an action that is denied or is not an ExecuteCommand
execute_action(caps, cwd, f, action, order) ==
    IF denied(caps, cwd, action)
    THEN Ret(Ok(NotPermitted), f, <<>>)
    ELSE dispatch(cwd, f, action, order)

\* ExecuteCommand: the directory the child is started in
command_dir(cwd, action) ==
    IF action.working_dir # None THEN action.working_dir[1] ELSE cwd

\* Command::output fails when the child cannot be started in its directory
spawn_ok(f, dir) == is_dir(f, dir)

exec_spawn_failed(f, dir, action) ==
    Ret(Ok(AgentResponse_error(
        <<"Failed to execute command: ", action.command>>,
        ErrText(IF fs_metadata(f, dir).ok THEN "ENOTDIR" ELSE "ENOENT"))),
        f, <<Sys("spawn", dir, FALSE)>>)

\* a variant that takes output on stderr for failure
exec_command_response_by_stderr(command, output) ==
    LET combined_output ==
            IF output.stderr = <<>> THEN output.stdout
            ELSE <<"STDOUT:\n">> \o output.stdout \o <<"\n\nSTDERR:\n">> \o output.stderr
    IN IF output.stderr = <<>>
       THEN Ok(AgentResponse_success(
                <<"Command executed successfully: ", command>>, Some(combined_output)))
       ELSE Ok(AgentResponse_error(<<"Command failed: ", command>>, combined_output))

\* ExecuteCommand: the response built from the output of the exited child
exec_command_response(command, output) ==
    LET combined_output ==
            IF output.stderr = <<>> THEN output.stdout
            ELSE <<"STDOUT:\n">> \o output.stdout \o <<"\n\nSTDERR:\n">> \o output.stderr
    IN IF output.code = 0
       THEN Ok(AgentResponse_success(
                <<"Command executed successfully: ", command>>, Some(combined_output)))
       ELSE Ok(AgentResponse_error(<<"Command failed: ", command>>, combined_output))

-----------------------------------------------------------------------------
(* The text of a message.  A text is a sequence of segments, each followed *)
(* by exactly one whitespace character `sep`: a word (a run of characters  *)
(* without whitespace, quote or backtick, in lower case) or a fenced block *)
(* ```lang body ```.  The body of a block is described by what serde_json  *)
(* makes of it (`shape`), by its text, by the number of characters it      *)
(* takes, and by whether it runs over several lines (`multiline`).  Blocks *)
(* of several lines stand only in messages without phrases.                *)

Word(s)     == [t |-> "word", s |-> s, sep |-> " "]
WordNl(s)   == [t |-> "word", s |-> s, sep |-> "\n"]
Block(lang, body) == [t |-> "block", lang |-> lang, body |-> body, sep |-> " "]

ArrayBody(items, size) ==
    [shape |-> "array", items |-> items, text |-> <<"[..]">>, size |-> size,
     multiline |-> FALSE]
SingleBody(item, size) ==
    [shape |-> "single", items |-> <<item>>, text |-> <<"{..}">>, size |-> size,
     multiline |-> FALSE]
CodeBody(text, size)   ==
    [shape |-> "other", items |-> <<>>, text |-> text, size |-> size,
     multiline |-> FALSE]
\* an array written over several lines, one element a line
PrettyArrayBody(items, size) ==
    [shape |-> "array", items |-> items, text |-> <<"[", "\n", "..", "\n", "]">>,
     size |-> size, multiline |-> TRUE]

Words(ws) == [i \in 1..Len(ws) |-> Word(ws[i])]

\* the number of characters of a segment, and the offset of segment i
SegLen(seg) ==
    IF seg.t = "word" THEN Len(seg.s)
    ELSE 3 + Len(seg.lang) + 1 + seg.body.size + 1 + 3

RECURSIVE Offset(_, _)
Offset(text, i) == IF i <= 1 THEN 0 ELSE Offset(text, i - 1) + SegLen(text[i - 1]) + 1

\* PathBuf::from(target_str)
PathFrom(s) ==
    CASE s = "src/main.rs" -> Rel(<<"src", "main.rs">>)
      [] s = "/etc/passwd" -> Abs(<<"etc", "passwd">>)
      [] OTHER             -> Rel(<<s>>)

\* the match of ```json\s*(.*?)\s*``` at a block: `.` matches no line break,
\* so the captured inner text lies on one line
json_regex_matches(seg) ==
    seg.t = "block" /\ seg.lang = "json" /\ ~seg.body.multiline

\* extract_json_actions: the first captured json block that deserializes
RECURSIVE extract_json_actions_from(_, _)
extract_json_actions_from(text, i) ==
    IF i > Len(text) THEN None
    ELSE IF json_regex_matches(text[i]) /\ text[i].body.shape = "array"
         THEN Some(text[i].body.items)
    ELSE IF json_regex_matches(text[i]) /\ text[i].body.shape = "single"
         THEN Some(<<text[i].body.items[1]>>)
    ELSE extract_json_actions_from(text, i + 1)

extract_json_actions(text) == extract_json_actions_from(text, 1)

\* The regular expressions of extract_natural_language_actions over words:
\* a literal word followed by whitespace, an optional group of words, the
\* captured target word, or the captured rest of the line.
Lit(w)   == [e |-> "lit", ws |-> <<w>>]
Opt(ws)  == [e |-> "opt", ws |-> ws]
Target   == [e |-> "target", ws |-> <<>>]
RestOfLine == [e |-> "line", ws |-> <<>>]

\* `unfinished`: the pattern text ends in a lone backslash (the raw string of
\* the create pattern is closed by the `"#` of its final `\"#`)
Pattern(re, action_type, unfinished) ==
    [re |-> re, action_type |-> action_type, unfinished |-> unfinished]

patterns ==
    << Pattern(<<Lit("read"), Opt(<<"the">>), Lit("file"), Target>>, "read", FALSE),
       Pattern(<<Lit("write"), Opt(<<"to">>), Opt(<<"the">>), Lit("file"), Target>>,
               "write", FALSE),
       Pattern(<<Lit("create"), Opt(<<"a">>), Opt(<<"new">>), Lit("file"),
                 Opt(<<"called">>), Target>>, "write", TRUE),
       Pattern(<<Lit("save"), Opt(<<"to">>), Target>>, "write", FALSE),
       Pattern(<<Lit("delete"), Opt(<<"the">>), Lit("file"), Target>>, "delete", FALSE),
       Pattern(<<Lit("remove"), Opt(<<"the">>), Lit("file"), Target>>, "delete", FALSE),
       Pattern(<<Lit("list"), Opt(<<"the">>), Opt(<<"files", "in">>),
                 Opt(<<"directory">>), Target>>, "list", FALSE),
       Pattern(<<Lit("execute"), RestOfLine>>, "execute", FALSE),
       Pattern(<<Lit("run"), RestOfLine>>, "execute", FALSE) >>

\* Regex::new: an unfinished escape at the end of the pattern is an error
regex_compiles(pattern) == ~pattern.unfinished

WordsAt(text, pos, ws) ==
    /\ pos + Len(ws) - 1 <= Len(text)
    /\ \A j \in 1..Len(ws) : text[pos + j - 1].t = "word" /\ text[pos + j - 1].s = ws[j]

\* the words from pos to the end of the line
RECURSIVE LineFrom(_, _)
LineFrom(text, pos) ==
    IF pos > Len(text) \/ text[pos].t # "word" THEN <<>>
    ELSE IF text[pos].sep = "\n" THEN <<text[pos].s>>
    ELSE <<text[pos].s>> \o LineFrom(text, pos + 1)

RECURSIVE JoinWords(_)
JoinWords(ws) ==
    IF ws = <<>> THEN ""
    ELSE IF Len(ws) = 1 THEN ws[1]
    ELSE ws[1] \o " " \o JoinWords(Tail(ws))

NoMatch == [ok |-> FALSE, target |-> "", end |-> 0]

\* one match attempt of the elements re[k..] at segment pos (greedy, with
\* backtracking over the optional groups)
RECURSIVE MatchFrom(_, _, _, _)
MatchFrom(text, re, k, pos) ==
    LET el == re[k] IN
    CASE el.e = "lit" ->
            IF WordsAt(text, pos, el.ws) /\ pos < Len(text)
            THEN MatchFrom(text, re, k + 1, pos + 1) ELSE NoMatch
      [] el.e = "opt" ->
            LET with == IF WordsAt(text, pos, el.ws) /\ pos + Len(el.ws) - 1 < Len(text)
                        THEN MatchFrom(text, re, k + 1, pos + Len(el.ws)) ELSE NoMatch
            IN IF with.ok THEN with ELSE MatchFrom(text, re, k + 1, pos)
      [] el.e = "target" ->
            IF pos <= Len(text) /\ text[pos].t = "word"
            THEN [ok |-> TRUE, target |-> text[pos].s, end |-> pos + 1] ELSE NoMatch
      [] el.e = "line" ->
            LET line == LineFrom(text, pos) IN
            IF line # <<>>
            THEN [ok |-> TRUE, target |-> JoinWords(line), end |-> pos + Len(line)]
            ELSE NoMatch

\* Regex::captures_iter: the non-overlapping matches, left to right
RECURSIVE captures_iter(_, _, _)
captures_iter(text, re, pos) ==
    IF pos > Len(text) THEN <<>>
    ELSE LET m == MatchFrom(text, re, 1, pos) IN
         IF m.ok THEN <<m.target>> \o captures_iter(text, re, m.end)
         ELSE captures_iter(text, re, pos + 1)

\* str::find(filename): in the texts of the model a target occurs only as a
\* whole word
RECURSIVE FindWord(_, _, _)
FindWord(text, s, i) ==
    IF i > Len(text) THEN None
    ELSE IF text[i].t = "word" /\ text[i].s = s THEN Some(Offset(text, i))
    ELSE FindWord(text, s, i + 1)

Distance(a, b) == IF a >= b THEN a - b ELSE b - a

Proximity == 500

RECURSIVE content_from_blocks(_, _, _)
content_from_blocks(text, filename_pos, i) ==
    IF i > Len(text) THEN None
    ELSE IF text[i].t = "block" /\ Distance(Offset(text, i), filename_pos) < Proximity
         THEN Some(text[i].body.text)
    ELSE content_from_blocks(text, filename_pos, i + 1)

extract_content_for_file(text, filename) ==
    LET filename_pos == FindWord(text, filename, 1) IN
    IF filename_pos = None THEN None
    ELSE content_from_blocks(text, filename_pos[1], 1)

Placeholder == <<"// TODO: Add content">>

\* the action built from one capture
action_for(text, action_type, target_str) ==
    CASE action_type = "read"    -> ReadFile(PathFrom(target_str))
      [] action_type = "write"   ->
            LET c == extract_content_for_file(text, target_str) IN
            WriteFile(PathFrom(target_str), IF c # None THEN c[1] ELSE Placeholder)
      [] action_type = "delete"  -> DeleteFile(PathFrom(target_str))
      [] action_type = "list"    -> ListDirectory(PathFrom(target_str))
      [] action_type = "execute" -> ExecuteCommand(target_str, None)

\* the actions of one pattern category
actions_of_pattern(text, pattern) ==
    IF regex_compiles(pattern)
    THEN LET caps == captures_iter(text, pattern.re, 1) IN
         [i \in 1..Len(caps) |-> action_for(text, pattern.action_type, caps[i])]
    ELSE <<>>

\* a variant that emits the matches of all categories in the order of their
\* place in the text
RECURSIVE actions_starting_at(_, _, _)
actions_starting_at(text, pos, k) ==
    IF k > Len(patterns) THEN <<>>
    ELSE LET m == MatchFrom(text, patterns[k].re, 1, pos) IN
         (IF regex_compiles(patterns[k]) /\ m.ok
          THEN <<action_for(text, patterns[k].action_type, m.target)>> ELSE <<>>)
            \o actions_starting_at(text, pos, k + 1)

RECURSIVE natural_language_in_text_order(_, _)
natural_language_in_text_order(text, pos) ==
    IF pos > Len(text) THEN <<>>
    ELSE actions_starting_at(text, pos, 1) \o natural_language_in_text_order(text, pos + 1)

RECURSIVE natural_language_from(_, _)
natural_language_from(text, k) ==
    IF k > Len(patterns) THEN <<>>
    ELSE actions_of_pattern(text, patterns[k]) \o natural_language_from(text, k + 1)

extract_natural_language_actions(text) == natural_language_from(text, 1)

\* a variant that falls back on the phrases only when no json block parsed
parse_agent_response_json_or_phrases(text) ==
    LET actions_from_json == extract_json_actions(text) IN
    IF actions_from_json # None /\ actions_from_json[1] # <<>>
    THEN actions_from_json[1]
    ELSE extract_natural_language_actions(text)

parse_agent_response(text) ==
    LET actions_from_json == extract_json_actions(text) IN
    (IF actions_from_json # None THEN actions_from_json[1] ELSE <<>>)
        \o extract_natural_language_actions(text)

-----------------------------------------------------------------------------
(* The inputs of the model.                                                *)

MaxBatch == 2      \* actions in the json block of a message
MaxPhrases == 2    \* phrases in a message of prose

InitialFs ==
    LET nodes == {
          << <<>>,                DirNode(TRUE) >>,
          << <<"w">>,             DirNode(TRUE) >>,
          << <<"w", "f">>,        FileNode(<<"a", "b">>) >>,
          << <<"w", "d">>,        DirNode(TRUE) >>,
          << <<"w", "d", "g">>,   FileNode(<<"b">>) >>,
          << <<"w", "p">>,        OtherNode >>,
          << <<"w", "ro">>,       DirNode(FALSE) >>,
          << <<"w", "ro", "k">>,  FileNode(<<>>) >>,
          << <<"etc">>,           DirNode(TRUE) >>,
          << <<"etc", "passwd">>, FileNode(<<"a">>) >>,
          << <<"etcetera">>,      DirNode(TRUE) >>,
          << <<"etcetera", "x">>, FileNode(<<"a">>) >>,
          << <<"etcetera", "X">>, FileNode(<<"b">>) >> }
    IN [l \in {n[1] : n \in nodes} |-> (CHOOSE n \in nodes : n[1] = l)[2]]

WorkingDirectories == {Abs(<<"w">>), Abs(<<"etc">>)}

\* DefaultAgentExecutor::new takes any PathBuf: a working directory given
\* relative to the working directory of the process
RelativeWorkingDirectory == Rel(<<"d">>)

ActionPool ==
    { ReadFile(Abs(<<"w", "f">>)),
      ReadFile(Rel(<<"zz">>)),
      ReadFile(Abs(<<"etc", "passwd">>)),
      ReadFile(Abs(<<"etcetera", "x">>)),
      ReadFile(Rel(<<"..", "etc", "passwd">>)),
      WriteFile(Abs(<<"w", "..", "etc", "passwd">>), <<"x">>),
      WriteFile(Abs(<<"w", "n", "g">>), <<"x">>),
      WriteFile(Abs(<<"w", "n", "..">>), <<"x">>),
      WriteFile(Rel(<<"a", "b", "c.txt">>), <<"x">>),
      WriteFile(Abs(<<"w", "f">>), <<"x">>),
      WriteFile(Abs(<<"w", "f", "h">>), <<"x">>),
      WriteFile(Abs(<<"w", "d">>), <<"x">>),
      WriteFile(Abs(<<"etc", "passwd">>), <<"x">>),
      CreateDirectory(Rel(<<"n">>)),
      CreateDirectory(Abs(<<"w", "f", "k">>)),
      DeleteFile(Abs(<<"w", "f">>)),
      DeleteFile(Abs(<<"w", "d">>)),
      DeleteFile(Abs(<<"w", "p">>)),
      DeleteFile(Abs(<<"w", "zz">>)),
      DeleteFile(Abs(<<"w", "ro", "k">>)),
      DeleteFile(Abs(<<"etc", "passwd">>)),
      ExecuteCommand("touch t", None),
      ExecuteCommand("false", None),
      ExecuteCommand("touch t", Some(Abs(<<"etc">>))),
      ExecuteCommand("echo hi", None),
      ExecuteCommand("echo hi >&2", None),
      ExecuteCommand("echo hi; false", None),
      ExecuteCommand("echo hi", Some(Abs(<<"w", "zz">>))),
      SearchFiles("f", None),
      SearchFiles("g", None),
      SearchFiles("f", Some(Abs(<<"w", "zz">>))),
      SearchFiles("d", Some(Abs(<<"etc">>))),
      SearchFiles("x", Some(Abs(<<"etcetera">>))),
      SearchFiles("c", Some(Abs(<<>>))),
      ReplaceInFile(Abs(<<"w", "f">>), <<"a">>, <<"c">>),
      ReplaceInFile(Abs(<<"w", "zz">>), <<"a">>, <<"c">>),
      ListDirectory(Abs(<<"w">>)),
      ListDirectory(Abs(<<"w", "f">>)),
      ListDirectory(Abs(<<"etc">>)),
      GetFileInfo(Abs(<<"w", "f">>)),
      GetFileInfo(Rel(<<"zz">>)) }

\* the actions that are combined into batches of several
SequencePool ==
    { ReadFile(Abs(<<"w", "f">>)),
      ReadFile(Rel(<<"zz">>)),
      WriteFile(Abs(<<"w", "n", "g">>), <<"x">>),
      WriteFile(Abs(<<"etc", "passwd">>), <<"x">>),
      CreateDirectory(Rel(<<"n">>)),
      DeleteFile(Abs(<<"w", "f">>)),
      ExecuteCommand("touch t", None),
      SearchFiles("f", None),
      SearchFiles("f", Some(Abs(<<"w", "zz">>))) }

Batches == UNION {[1..n -> SequencePool] : n \in 0..MaxBatch}

\* a message with one json block: an array of actions, or a single action
JsonMessages ==
    {<<Block("json", ArrayBody(b, 40))>> : b \in Batches}
        \cup {<<Block("json", SingleBody(a, 40))>> : a \in ActionPool}

Phrases ==
    { Words(<<"read", "the", "file", "src/main.rs">>),
      Words(<<"and", "then", "create", "a", "new", "file", "called", "test.txt">>),
      Words(<<"delete", "the", "file", "f">>),
      Words(<<"list", "the", "files", "in", "directory", "d">>),
      Words(<<"save", "to", "f">>),
      <<Word("run"), Word("touch"), WordNl("t")>>,
      <<Block("rust", CodeBody(<<"fn main() {}">>, 12))>> }

RECURSIVE Flatten(_)
Flatten(ss) == IF ss = <<>> THEN <<>> ELSE Head(ss) \o Flatten(Tail(ss))

ProseMessages == {Flatten(ps) : ps \in UNION {[1..n -> Phrases] : n \in 1..MaxPhrases}}

\* messages with a json block before or after a phrase
MixedBatches ==
    { <<ReadFile(Rel(<<"src", "main.rs">>))>>,
      <<DeleteFile(Abs(<<"w", "f">>)), ReadFile(Abs(<<"w", "f">>))>> }

MixedMessages ==
    {<<Block("json", ArrayBody(b, 40))>> \o p : b \in MixedBatches, p \in Phrases}
        \cup {p \o <<Block("json", ArrayBody(b, 40))>> : b \in MixedBatches, p \in Phrases}

\* messages with two json blocks, and with a json block of several lines
TwoBlockMessages ==
    LET first == <<ReadFile(Abs(<<"w", "f">>))>>
        second == <<DeleteFile(Abs(<<"w", "f">>))>>
    IN { <<Block("json", ArrayBody(first, 40)), Block("json", ArrayBody(second, 40))>>,
         <<Block("json", SingleBody(first[1], 40)), Block("json", ArrayBody(second, 40))>>,
         <<Block("json", CodeBody(<<"{}">>, 2)), Block("json", ArrayBody(second, 40))>>,
         <<Block("rust", CodeBody(<<"fn main() {}">>, 12)),
           Block("json", ArrayBody(second, 40))>>,
         <<Block("json", PrettyArrayBody(first, 44))>>,
         <<Block("json", PrettyArrayBody(first, 44)), Block("json", ArrayBody(second, 40))>> }

\* messages whose json block holds the same action twice
RepeatedActions ==
    { CreateDirectory(Rel(<<"a", "b">>)),
      CreateDirectory(Abs(<<"w", "f", "k">>)) }

RepeatedMessages == {<<Block("json", ArrayBody(<<a, a>>, 80))>> : a \in RepeatedActions}

Messages ==
    JsonMessages \cup ProseMessages \cup MixedMessages \cup TwoBlockMessages
        \cup RepeatedMessages

-----------------------------------------------------------------------------
(* The state machine: one executor, one call of process_agent_message.     *)

Init ==
    /\ capabilities \in CapabilitySets
    /\ \/ current_directory \in WorkingDirectories
       \/ /\ capabilities = DefaultCapabilities
          /\ current_directory = RelativeWorkingDirectory
    /\ fs = InitialFs
    /\ spawned = <<>>
    /\ child = None
    /\ message = None
    /\ actions = <<>>
    /\ responses = <<>>
    /\ pc = "idle"
    /\ effects = <<>>
    /\ formatted = None

\* the action the loop is at
Current == actions[Len(responses) + 1]

\* `of`: the action the call belongs to; `at`: the responses produced so far
Tagged(ops, by) ==
    [i \in 1..Len(ops) |->
        [of |-> Len(responses) + 1, at |-> Len(responses), by |-> by, op |-> ops[i].op,
         path |-> ops[i].path, ok |-> ops[i].ok]]

\* a variant that ends the loop on an Err and returns the responses so far
Push_returns_partial(result) ==
    IF result.ok
    THEN /\ responses' = Append(responses, result.val)
         /\ pc' = "loop"
    ELSE /\ responses' = responses
         /\ pc' = "done"

\* `let response = executor.execute_action(action)?; responses.push(response);`
Push(result) ==
    IF result.ok
    THEN /\ responses' = Append(responses, result.val)
         /\ pc' = "loop"
    ELSE /\ responses' = <<>>
         /\ pc' = "failed"

\* a variant that does not wait for the child (Command::spawn for ::output)
output_returns_at_once(c) == TRUE

\* Command::output returns when the child has exited
output_returns(c) == c.exited

\* a variant in which a CreateDirectory moves the executor into the directory
self_after_enters_directory(caps, cwd, action) ==
    [capabilities |-> caps,
     current_directory |-> IF action.kind = "CreateDirectory"
                           THEN resolve_path(cwd, action.path) ELSE cwd]

\* the executor after execute_action(&mut self, action): no arm assigns to it
self_after(caps, cwd, action) == [capabilities |-> caps, current_directory |-> cwd]

\* process_agent_message: parse, then enter the loop
ProcessAgentMessage(text) ==
    /\ pc = "idle"
    /\ message' = Some(text)
    /\ actions' = parse_agent_response(text)
    /\ responses' = <<>>
    /\ pc' = "loop"
    /\ UNCHANGED <<formatted, capabilities, current_directory, fs, spawned, child, effects>>

\* one iteration of the loop: an action that is denied or not a command
ExecuteNext ==
    /\ pc = "loop"
    /\ Len(responses) < Len(actions)
    /\ Current.kind # "ExecuteCommand" \/ denied(capabilities, current_directory, Current)
    /\ \E order \in Orders(IF Current.kind = "SearchFiles"
                           THEN SearchMatches(current_directory, fs, Current) ELSE {}) :
          LET out == execute_action(capabilities, current_directory, fs, Current, order)
          IN /\ fs' = out.fs
             /\ effects' = effects \o Tagged(out.ops, "executor")
             /\ Push(out.result)
    /\ capabilities' = self_after(capabilities, current_directory, Current).capabilities
    /\ current_directory' =
          self_after(capabilities, current_directory, Current).current_directory
    /\ UNCHANGED <<formatted, spawned, child, message, actions>>

\* one iteration of the loop, ExecuteCommand: the child is started
SpawnCommand ==
    /\ pc = "loop"
    /\ Len(responses) < Len(actions)
    /\ Current.kind = "ExecuteCommand"
    /\ ~denied(capabilities, current_directory, Current)
    /\ LET dir == command_dir(current_directory, Current) IN
       IF spawn_ok(fs, dir)
       THEN /\ child' = Some([of |-> Len(responses) + 1, command |-> Current.command,
                              dir |-> Lookup(fs, dir).loc, exited |-> FALSE,
                              stdout |-> <<>>, stderr |-> <<>>, code |-> 0])
            /\ spawned' = Append(spawned, [command |-> Current.command, dir |-> dir])
            /\ effects' = effects \o Tagged(<<Sys("spawn", dir, TRUE)>>, "executor")
            /\ pc' = "wait"
            /\ UNCHANGED <<responses>>
       ELSE LET out == exec_spawn_failed(fs, dir, Current) IN
            /\ effects' = effects \o Tagged(out.ops, "executor")
            /\ Push(out.result)
            /\ UNCHANGED <<child, spawned>>
    /\ capabilities' = self_after(capabilities, current_directory, Current).capabilities
    /\ current_directory' =
          self_after(capabilities, current_directory, Current).current_directory
    /\ UNCHANGED <<formatted, fs, message, actions>>

\* the child runs to its exit while the caller is blocked
ChildRuns ==
    /\ child # None
    /\ ~child[1].exited
    /\ LET out == ShellRun(child[1].command, fs, child[1].dir) IN
       /\ fs' = out.fs
       /\ child' = Some([child[1] EXCEPT !.exited = TRUE, !.stdout = out.stdout,
                                         !.stderr = out.stderr, !.code = out.code])
       /\ effects' = effects \o
            <<[of |-> child[1].of, at |-> Len(responses), by |-> "child", op |-> "sh",
               path |-> Abs(child[1].dir), ok |-> out.code = 0]>>
    /\ UNCHANGED <<formatted, capabilities, current_directory, spawned, message, actions,
                   responses, pc>>

\* Command::output returns: the response of the ExecuteCommand
CollectOutput ==
    /\ pc = "wait"
    /\ child # None
    /\ output_returns(child[1])
    /\ Push(exec_command_response(child[1].command, child[1]))
    /\ child' = IF child[1].exited THEN None ELSE child
    /\ UNCHANGED <<formatted, capabilities, current_directory, fs, spawned, message, actions,
                   effects>>

\* `Ok(responses)`
Return ==
    /\ pc = "loop"
    /\ Len(responses) = Len(actions)
    /\ pc' = "done"
    /\ UNCHANGED <<formatted, capabilities, current_directory, fs, spawned, child, message,
                   actions, responses, effects>>

Next ==
    \/ \E text \in Messages : ProcessAgentMessage(text)
    \/ ExecuteNext
    \/ SpawnCommand
    \/ ChildRuns
    \/ CollectOutput
    \/ Return

Spec == Init /\ [][Next]_vars

-----------------------------------------------------------------------------
(* process_agent_message over any AgentExecutor: the trait lets            *)
(* execute_action return Err, which DefaultAgentExecutor never does.  The  *)
(* executor here is the default one with calls that may fail with an Err   *)
(* before they do anything.                                                *)

\* execute_action returns Err for the action the loop is at
ExecuteFails ==
    /\ pc = "loop"
    /\ Len(responses) < Len(actions)
    /\ Push(Err("executor failed"))
    /\ UNCHANGED <<formatted, capabilities, current_directory, fs, spawned, child, message,
                   actions, effects>>

NextAny ==
    \/ \E text \in JsonMessages : ProcessAgentMessage(text)
    \/ ExecuteNext
    \/ SpawnCommand
    \/ ChildRuns
    \/ CollectOutput
    \/ Return
    \/ ExecuteFails

SpecAny == Init /\ [][NextAny]_vars

-----------------------------------------------------------------------------
(* format_agent_responses.  A String is a sequence of text units in which  *)
(* every line break is a unit "\n" of its own.                             *)

\* "\u{1F916}", "\u{2705}" and "\u{274C}"
Robot      == "U+1F916"
CheckMark  == "U+2705"
CrossMark  == "U+274C"

\* str::lines: the text between the line breaks; a final line break ends the
\* last line and opens no empty one
RECURSIVE Lines(_)
Lines(text) ==
    IF text = <<>> THEN <<>>
    ELSE LET brk == {i \in 1..Len(text) : text[i] = "\n"} IN
         IF brk = {} THEN <<text>>
         ELSE LET i == CHOOSE j \in brk : \A k \in brk : j <= k
              IN <<SubSeq(text, 1, i - 1)>> \o Lines(SubSeq(text, i + 1, Len(text)))

\* Iterator::take
Take(seq, n) == SubSeq(seq, 1, IF Len(seq) < n THEN Len(seq) ELSE n)

\* `.take(10)` and `.count() > 10`
OutputLimit == 10

RECURSIVE indented(_)
indented(lines) ==
    IF lines = <<>> THEN <<>>
    ELSE <<"   ">> \o Head(lines) \o <<"\n">> \o indented(Tail(lines))

\* `if let Some(data) = &response.data { if !data.is_empty() { .. } }`
data_section(response) ==
    IF response.data # None /\ response.data[1] # <<>>
    THEN <<"   Output:", "\n">>
            \o indented(Take(Lines(response.data[1]), OutputLimit))
            \o (IF Len(Lines(response.data[1])) > OutputLimit
                THEN <<"   ... (output truncated)", "\n">> ELSE <<>>)
    ELSE <<>>

\* a variant that shows the error of failed responses only
error_section_on_failure(response) ==
    IF ~response.success /\ response.error # None
    THEN <<"   Error: ">> \o response.error[1] \o <<"\n">>
    ELSE <<>>

\* `if let Some(error) = &response.error { .. }`
error_section(response) ==
    IF response.error # None
    THEN <<"   Error: ">> \o response.error[1] \o <<"\n">>
    ELSE <<>>

\* one round of `for (i, response) in responses.iter().enumerate()`
format_entry(i, response) ==
    LET status_icon == IF response.success THEN CheckMark ELSE CrossMark IN
    <<ToString(i + 1), ". ", status_icon, " ">> \o response.message \o <<"\n">>
        \o data_section(response)
        \o error_section(response)
        \o <<"\n">>

RECURSIVE format_entries(_, _)
format_entries(rs, i) ==
    IF i >= Len(rs) THEN <<>>
    ELSE format_entry(i, rs[i + 1]) \o format_entries(rs, i + 1)

format_agent_responses(rs) ==
    IF rs = <<>> THEN <<"No actions were executed.">>
    ELSE <<Robot, " Agent Actions Executed:", "\n", "\n">> \o format_entries(rs, 0)

\* the responses handed to format_agent_responses
MaxResponses == 2

LongData == <<"l", "\n", "l", "\n", "l", "\n", "l", "\n", "l", "\n", "l", "\n",
              "l", "\n", "l", "\n", "l", "\n", "l", "\n", "m", "\n">>

ResponsePool ==
    { AgentResponse_success(<<"ok">>, None),
      AgentResponse_error(<<"bad">>, <<"why">>),
      AgentResponse_success(<<"Successfully read file: ", "/w/f">>, Some(<<"a", "\n", "b">>)),
      AgentResponse_success(<<"Found ", "0", " matches for pattern '", "f", "'">>,
                            Some(<<>>)),
      AgentResponse_success(<<"Command executed successfully: ", "seq 11">>,
                            Some(LongData)),
      AgentResponse_error(<<"Command failed: ", "false">>, <<>>),
      AgentResponse_error(<<"Command failed: ", "echo hi; false">>, <<"hi", "\n">>),
      [success |-> TRUE, message |-> <<"odd">>, data |-> Some(<<"x">>),
       error |-> Some(<<"e">>)] }

ResponseLists == UNION {[1..n -> ResponsePool] : n \in 0..MaxResponses}

InitFormat ==
    /\ capabilities = DefaultCapabilities
    /\ current_directory = Abs(<<"w">>)
    /\ fs = InitialFs
    /\ spawned = <<>>
    /\ child = None
    /\ message = None
    /\ actions = <<>>
    /\ responses \in ResponseLists
    /\ pc = "format"
    /\ effects = <<>>
    /\ formatted = None

\* a call of format_agent_responses
FormatResponses ==
    /\ pc = "format"
    /\ formatted' = Some(format_agent_responses(responses))
    /\ pc' = "formatted"
    /\ UNCHANGED <<capabilities, current_directory, fs, spawned, child, message,
                   actions, responses, effects>>

NextFormat == FormatResponses

SpecFormat == InitFormat /\ [][NextFormat]_vars

-----------------------------------------------------------------------------
(* The authorization table of the design (section 4.3), stated apart from  *)
(* is_safe_action, and what the responses show of a call.                  *)

ReadKinds   == {"ReadFile", "ListDirectory", "GetFileInfo"}
WriteKinds  == {"WriteFile", "ReplaceInFile"}
ModifyKinds == {"CreateDirectory", "DeleteFile"}
PathKinds   == ReadKinds \cup WriteKinds \cup ModifyKinds

GoverningFlag(caps, kind) ==
    CASE kind \in ReadKinds       -> caps.can_read_files
      [] kind \in WriteKinds      -> caps.can_write_files
      [] kind \in ModifyKinds     -> caps.can_modify_filesystem
      [] kind = "ExecuteCommand"  -> caps.can_execute_commands
      [] kind = "SearchFiles"     -> TRUE

CheckedPath(cwd, a) ==
    CASE a.kind \in PathKinds     -> Some(resolve_path(cwd, a.path))
      [] a.kind = "SearchFiles"   ->
            Some(resolve_path(cwd, IF a.directory # None THEN a.directory[1] ELSE cwd))
      [] a.kind = "ExecuteCommand" -> None

PathRestricted(a) ==
    LET p == CheckedPath(current_directory, a) IN
    p # None /\ is_path_restricted(capabilities, p[1])

NotAllowed(a) == ~GoverningFlag(capabilities, a.kind) \/ PathRestricted(a)

Refused(r) == ~r.success /\ r.message = <<"Action not permitted">>

Answered == 1..Len(responses)

EffectsOf(i) == {k \in 1..Len(effects) : effects[k].of = i}

-----------------------------------------------------------------------------
(* C1: an action whose governing capability is disabled or whose resolved  *)
(* path is restricted is answered "Action not permitted" with              *)
(* success = false, and its execution makes no filesystem or process call  *)
(* and leaves the filesystem and the processes as they were.               *)

C1_DeniedHasNoEffect ==
    [][ (pc = "loop" /\ Len(responses) < Len(actions) /\ NotAllowed(Current))
        => /\ fs' = fs
           /\ spawned' = spawned
           /\ child' = child
           /\ effects' = effects
           /\ Len(responses') = Len(responses) + 1
           /\ Refused(responses'[Len(responses')]) ]_vars

\* a DeleteFile of an existing file under a restricted prefix, with the modify
\* capability enabled, has been refused
C1_Witness ==
    \E i \in Answered :
        /\ actions[i].kind = "DeleteFile"
        /\ capabilities.can_modify_filesystem
        /\ PathRestricted(actions[i])
        /\ Refused(responses[i])
        /\ Exists(fs, <<"etc", "passwd">>)

-----------------------------------------------------------------------------
(* C2: a batch of N actions yields N responses, the i-th response being    *)
(* that of the i-th action; no response ends the batch early: the loop     *)
(* never fails, waits only for the child of the action it is at, and       *)
(* returns only with one response per action.                              *)

MessageHeads(kind) ==
    CASE kind = "ReadFile"  -> {"Successfully read file: ", "Failed to read file: "}
      [] kind = "WriteFile" -> {"Failed to create parent directories",
                                "Successfully wrote file: ", "Failed to write file: "}
      [] kind = "CreateDirectory" -> {"Successfully created directory: ",
                                      "Failed to create directory: "}
      [] kind = "DeleteFile" -> {"Path does not exist", "Successfully deleted: ",
                                 "Failed to delete: "}
      [] kind = "ExecuteCommand" -> {"Command executed successfully: ",
                                     "Command failed: ", "Failed to execute command: "}
      [] kind = "SearchFiles" -> {"Found "}
      [] kind = "ReplaceInFile" -> {"Successfully replaced text in: ",
                                    "Failed to read file: ", "Failed to write file: "}
      [] kind = "ListDirectory" -> {"Listed directory: ", "Failed to list directory: "}
      [] kind = "GetFileInfo" -> {"File info for: ", "Failed to get file info: "}

Subject(a) ==
    CASE a.kind \in PathKinds      -> Display(resolve_path(current_directory, a.path))
      [] a.kind = "ExecuteCommand" -> a.command
      [] a.kind = "SearchFiles"    -> a.pattern

BelongsTo(r, a) ==
    IF Refused(r) THEN NotAllowed(a)
    ELSE /\ r.message[1] \in MessageHeads(a.kind)
         /\ Len(r.message) = 2 => r.message[2] = Subject(a)
         /\ a.kind = "SearchFiles" => r.message[4] = Subject(a)

C2_OneResponsePerAction ==
    /\ pc # "failed"
    /\ Len(responses) <= Len(actions)
    /\ pc = "done" => Len(responses) = Len(actions)
    /\ pc = "wait" => child # None /\ Len(responses) < Len(actions)
    /\ \A i \in Answered : BelongsTo(responses[i], actions[i])

\* a returned batch of two whose first action was refused or failed and whose
\* second succeeded
C2_Witness ==
    /\ pc = "done"
    /\ Len(actions) = 2
    /\ ~responses[1].success
    /\ responses[2].success

-----------------------------------------------------------------------------
(* C3: in every response, success = true comes without an error and        *)
(* success = false comes without data.                                     *)

C3_ResponsePolarity ==
    \A i \in Answered :
        /\ responses[i].success => responses[i].error = None
        /\ ~responses[i].success => responses[i].data = None

\* a batch with a success that carries data and a failure that carries an error
C3_Witness ==
    \E i, j \in Answered :
        /\ responses[i].success /\ responses[i].data # None
        /\ ~responses[j].success /\ responses[j].error # None /\ ~Refused(responses[j])

-----------------------------------------------------------------------------
(* C4: an action with a path is authorized exactly when its governing flag *)
(* (read for ReadFile, ListDirectory, GetFileInfo; write for WriteFile,    *)
(* ReplaceInFile; modify for CreateDirectory, DeleteFile) is set and its   *)
(* resolved path is not restricted, whatever the other flags are.          *)

C4_AuthorizationTable ==
    \A i \in Answered :
        actions[i].kind \in PathKinds =>
            (~Refused(responses[i]) <=>
                /\ GoverningFlag(capabilities, actions[i].kind)
                /\ ~is_path_restricted(capabilities,
                                       resolve_path(current_directory, actions[i].path)))

\* a WriteFile went through with the write flag as the only flag set
C4_Witness ==
    \E i \in Answered :
        /\ actions[i].kind = "WriteFile"
        /\ ~Refused(responses[i])
        /\ capabilities.can_write_files
        /\ ~capabilities.can_read_files
        /\ ~capabilities.can_modify_filesystem
        /\ ~capabilities.can_execute_commands

-----------------------------------------------------------------------------
(* C5: the default policy has read, write and modify set and execute       *)
(* clear, and an executor that holds it refuses every ExecuteCommand and   *)
(* never starts a child process.                                           *)

C5_DefaultNeverSpawns ==
    capabilities = DefaultCapabilities =>
        /\ capabilities.can_read_files
        /\ capabilities.can_write_files
        /\ capabilities.can_modify_filesystem
        /\ ~capabilities.can_execute_commands
        /\ spawned = <<>>
        /\ child = None
        /\ \A i \in Answered :
              actions[i].kind = "ExecuteCommand" => Refused(responses[i])

\* the default executor has answered an ExecuteCommand, after another action
C5_Witness ==
    /\ capabilities = DefaultCapabilities
    /\ \E i \in Answered : i > 1 /\ actions[i].kind = "ExecuteCommand"

-----------------------------------------------------------------------------
(* C6: a SearchFiles is authorized exactly when its resolved directory     *)
(* (the one given, else the working directory) is not restricted; the      *)
(* capability flags play no part.                                          *)

C6_SearchIgnoresFlags ==
    \A i \in Answered :
        actions[i].kind = "SearchFiles" =>
            (~Refused(responses[i]) <=>
                ~is_path_restricted(capabilities,
                    resolve_path(current_directory,
                        IF actions[i].directory # None THEN actions[i].directory[1]
                        ELSE current_directory)))

\* a SearchFiles went through with no capability flag set
C6_Witness ==
    /\ \E i \in Answered : actions[i].kind = "SearchFiles" /\ responses[i].success
    /\ ~capabilities.can_read_files
    /\ ~capabilities.can_write_files
    /\ ~capabilities.can_modify_filesystem
    /\ ~capabilities.can_execute_commands

-----------------------------------------------------------------------------
(* C7: a text that says "read the file P" and then "create a new file      *)
(* called Q", with no other trigger phrase, parses to exactly two actions  *)
(* in this order: ReadFile of P, then WriteFile of Q whose content is the  *)
(* placeholder or a nearby code block.                                     *)

ReadThenCreate ==
    Words(<<"read", "the", "file", "src/main.rs">>)
        \o Words(<<"and", "then", "create", "a", "new", "file", "called", "test.txt">>)

C7_ReadThenCreate ==
    (pc # "idle" /\ message = Some(ReadThenCreate)) =>
        /\ Len(actions) = 2
        /\ actions[1] = ReadFile(Rel(<<"src", "main.rs">>))
        /\ actions[2].kind = "WriteFile"
        /\ actions[2].path = Rel(<<"test.txt">>)
        /\ actions[2].content = Placeholder

-----------------------------------------------------------------------------
(* C8: a batch runs strictly in sequence: every filesystem or process call *)
(* of action n+1, the run of a child included, happens after the response  *)
(* of action n and before the response of action n+1; a child exists only  *)
(* while the loop waits for it, and it is the child of the action the loop *)
(* is at, so at most one action is in flight.                              *)

C8_StrictlySequential ==
    /\ child # None =>
          /\ pc = "wait"
          /\ child[1].of = Len(responses) + 1
    /\ \A k \in 1..Len(effects) :
          /\ effects[k].at = effects[k].of - 1
          /\ effects[k].of <= Len(responses) + 1
          /\ k > 1 => effects[k - 1].of <= effects[k].of

\* a child has run for one action, and the next action has then made a call
C8_Witness ==
    \E k, l \in 1..Len(effects) :
        /\ effects[k].by = "child"
        /\ effects[l].of = effects[k].of + 1
        /\ actions[effects[k].of].kind = "ExecuteCommand"

-----------------------------------------------------------------------------
(* C9: for every action kind, when a filesystem or process call made for   *)
(* an action fails, the action is answered with success = false, and the   *)
(* failure never leaves the loop as an Err.                                *)

FailedCall(i) == \E k \in EffectsOf(i) : ~effects[k].ok

C9_EveryFailureIsAnError ==
    /\ pc # "failed"
    /\ \A i \in Answered : FailedCall(i) => ~responses[i].success

(* C9, amended: for every kind but SearchFiles, a failed call of the       *)
(* action's target (read, write, create_dir_all, remove, read_dir,         *)
(* metadata, spawn, or a child that exits non-zero) gives success = false  *)
(* with an error text, and no failure leaves the loop as an Err; a         *)
(* SearchFiles whose directory cannot be listed is answered                *)
(* success = true with zero matches.                                       *)

C9_FailuresAreErrorsButSearch ==
    /\ pc # "failed"
    /\ \A i \in Answered :
          FailedCall(i) =>
              IF actions[i].kind = "SearchFiles"
              THEN /\ responses[i].success
                   /\ responses[i].message[2] = "0"
                   /\ responses[i].error = None
              ELSE /\ ~responses[i].success
                   /\ responses[i].error # None
                   /\ ~Refused(responses[i])

\* one batch in which a failed read was answered with an error and a failed
\* listing of a SearchFiles with success
C9_Witness ==
    \E i, j \in Answered :
        /\ actions[i].kind = "ReadFile" /\ FailedCall(i) /\ ~responses[i].success
        /\ actions[j].kind = "SearchFiles" /\ FailedCall(j) /\ responses[j].success

-----------------------------------------------------------------------------
(* C10: an authorized DeleteFile is answered "Path does not exist" exactly *)
(* when nothing is at the resolved path at that time: an entry that exists *)
(* (a file, a directory or any other type) is never reported as absent;    *)
(* and when it is so answered the filesystem is left as it was.            *)

Absent(f, p) == ~fs_metadata(f, p).ok

C10_NotFoundIffAbsent ==
    [][ (/\ pc = "loop"
         /\ Len(responses) < Len(actions)
         /\ Current.kind = "DeleteFile"
         /\ ~NotAllowed(Current))
        => LET r == responses'[Len(responses')] IN
           /\ Len(responses') = Len(responses) + 1
           /\ (r.message = <<"Path does not exist">>)
                  <=> Absent(fs, resolve_path(current_directory, Current.path))
           /\ r.message = <<"Path does not exist">> => (~r.success /\ fs' = fs) ]_vars

-----------------------------------------------------------------------------
(* C11: an authorized WriteFile to a path whose ancestors are missing or   *)
(* directories, in a place that can be written, succeeds, creates every    *)
(* missing ancestor directory and leaves at the path a file whose content  *)
(* is exactly the given content, an existing file being overwritten        *)
(* whole; nothing else in the filesystem changes.                          *)

\* the location an absolute path without `..` names
LocOf(p) == p.comps

Range(seq) == {seq[i] : i \in DOMAIN seq}

Ancestors(loc) == {SubSeq(loc, 1, n) : n \in 0..(Len(loc) - 1)}

\* every ancestor is a directory or missing, the deepest existing ancestor
\* can be written when something is to be created, and the path itself is
\* missing or a file that can be written
Writable(f, loc) ==
    LET present == {a \in Ancestors(loc) : Exists(f, a)}
        deepest == CHOOSE a \in present : \A b \in present : Len(b) <= Len(a)
    IN /\ \A a \in present : f[a].kind = "dir"
       /\ IF Exists(f, loc) THEN f[loc].kind = "file" /\ f[loc].w
          ELSE f[deepest].w

C11_WriteCreatesAncestors ==
    [][ (/\ pc = "loop"
         /\ Len(responses) < Len(actions)
         /\ Current.kind = "WriteFile"
         /\ ~NotAllowed(Current)
         /\ resolve_path(current_directory, Current.path).abs
         /\ ".." \notin Range(resolve_path(current_directory, Current.path).comps)
         /\ Writable(fs, LocOf(resolve_path(current_directory, Current.path))))
        => LET loc == LocOf(resolve_path(current_directory, Current.path)) IN
           /\ responses'[Len(responses')].success
           /\ DOMAIN fs' = DOMAIN fs \cup Ancestors(loc) \cup {loc}
           /\ \A a \in Ancestors(loc) : fs'[a].kind = "dir"
           /\ fs'[loc].kind = "file"
           /\ fs'[loc].content = Current.content
           /\ \A l \in DOMAIN fs \ {loc} : fs'[l] = fs[l] ]_vars

\* a/b/c.txt has been written in a working directory that had no a
C11_Witness ==
    \E i \in Answered :
        /\ actions[i] = WriteFile(Rel(<<"a", "b", "c.txt">>), <<"x">>)
        /\ responses[i].success
        /\ IsDirAt(fs, <<"w", "a">>)
        /\ IsDirAt(fs, <<"w", "a", "b">>)
        /\ fs[<<"w", "a", "b", "c.txt">>] = FileNode(<<"x">>)
        /\ ~Exists(InitialFs, <<"w", "a">>)

-----------------------------------------------------------------------------
(* C12: ListDirectory orders its lines by the rendered string (type tag,   *)
(* then name) and the order is not grouped by type: where a file's name    *)
(* sorts before a directory's name, the FILE line of the one precedes the  *)
(* DIR line of the other.                                                  *)

\* the lines a listing of the directory at `loc` holds: tag and name
Entries(f, loc) ==
    {[tag |-> IF f[c].kind = "dir" THEN "DIR" ELSE "FILE", name |-> c[Len(c)]] :
        c \in Children(f, loc)}

Rendered(e) == ListItem(e.tag, e.name)

\* the listing data that shows the entries in the order `o`
Shows(data, o) == data = Some(JoinWith([k \in 1..Len(o) |-> Concat(Rendered(o[k]))], "\n"))

ListsNow ==
    /\ pc = "loop"
    /\ Len(responses) < Len(actions)
    /\ Current.kind = "ListDirectory"
    /\ ~NotAllowed(Current)
    /\ fs_read_dir(fs, resolve_path(current_directory, Current.path)).ok

ListedLoc == Lookup(fs, resolve_path(current_directory, Current.path)).loc

C12_NotGroupedByType ==
    [][ ListsNow =>
          \E o \in Orders(Entries(fs, ListedLoc)) :
             /\ Shows(responses'[Len(responses')].data, o)
             /\ \A k \in 1..(Len(o) - 1) : LexLeq(Rendered(o[k]), Rendered(o[k + 1]))
             /\ \A k, l \in 1..Len(o) :
                   (/\ o[k].tag = "FILE" /\ o[l].tag = "DIR"
                    /\ LexLeq(Spell(o[k].name), Spell(o[l].name))) => k < l ]_vars

(* C12, amended: ListDirectory orders its lines by the rendered string     *)
(* (type tag padded to six, a space, the name), in byte order; as "DIR"    *)
(* sorts before "FILE", every DIR line precedes every FILE line, and the   *)
(* names ascend within each of the two groups.                             *)

C12_SortedByRenderedString ==
    [][ ListsNow =>
          \E o \in Orders(Entries(fs, ListedLoc)) :
             /\ responses'[Len(responses')].success
             /\ Shows(responses'[Len(responses')].data, o)
             /\ \A k \in 1..(Len(o) - 1) : LexLeq(Rendered(o[k]), Rendered(o[k + 1]))
             /\ \A k, l \in 1..Len(o) :
                   (o[k].tag = "DIR" /\ o[l].tag = "FILE") => k < l
             /\ \A k, l \in 1..Len(o) :
                   (o[k].tag = o[l].tag /\ k < l) =>
                       LexLeq(Spell(o[k].name), Spell(o[l].name)) ]_vars

\* a directory with a file whose name sorts before a directory's name has
\* been listed: the DIR lines come first
C12_Witness ==
    \E i \in Answered :
        /\ actions[i] = ListDirectory(Abs(<<"w">>))
        /\ responses[i].success
        /\ responses[i].data =
              Some(<<"DIR    d", "\n", "DIR    ro", "\n", "FILE   f", "\n", "FILE   p">>)
        /\ LexLeq(Spell("f"), Spell("ro"))

-----------------------------------------------------------------------------
(* C13: when the child of an authorized ExecuteCommand has run, the        *)
(* response has success exactly when the exit status is zero, whatever     *)
(* was written to stdout and stderr: on zero the combined output is the    *)
(* data and there is no error, also when stderr is not empty; on non-zero  *)
(* the combined output is the error and there is no data.                  *)

\* stdout alone when stderr is empty, else both under their labels
Combined(c) ==
    IF c.stderr = <<>> THEN c.stdout
    ELSE <<"STDOUT:\n">> \o c.stdout \o <<"\n\nSTDERR:\n">> \o c.stderr

C13_SuccessMirrorsExitStatus ==
    [][ (pc = "wait" /\ pc' # "wait") =>
          LET c == child[1]
              r == responses'[Len(responses')]
          IN /\ c.exited
             /\ Len(responses') = Len(responses) + 1
             /\ r.success <=> c.code = 0
             /\ c.code = 0 => (r.data = Some(Combined(c)) /\ r.error = None)
             /\ c.code # 0 => (r.error = Some(Combined(c)) /\ r.data = None) ]_vars

\* a command that wrote to stderr and exited with zero has been answered with
\* success and both streams as data
C13_Witness ==
    \E i \in Answered :
        /\ actions[i].kind = "ExecuteCommand"
        /\ actions[i].command = "echo hi >&2"
        /\ responses[i].success
        /\ responses[i].data = Some(<<"STDOUT:\n", "\n\nSTDERR:\n", "hi", "\n">>)

-----------------------------------------------------------------------------
(* C14: format_agent_responses on N > 0 responses gives exactly N numbered *)
(* entries, numbered 1..N in the order of the responses, the k-th marked   *)
(* success or failure as the k-th response is and carrying its message,    *)
(* with an "Error: <error>" line in the entry exactly when the response    *)
(* carries an error; on no responses it gives only the fixed sentence.     *)

\* a line `<number>. <mark> <message>`
IsEntry(line) ==
    /\ Len(line) >= 4
    /\ line[2] = ". "
    /\ line[3] \in {CheckMark, CrossMark}
    /\ line[4] = " "

IsErrorLine(line) == line # <<>> /\ line[1] = "   Error: "

\* the numbers of the lines that are numbered entries
EntryAt(lines) == {i \in 1..Len(lines) : IsEntry(lines[i])}

\* the line number of the k-th numbered entry, and the lines that follow it
\* up to the next entry
NthEntry(at, k) == CHOOSE i \in at : Cardinality({j \in at : j < i}) = k - 1

EntryBody(lines, at, k) ==
    {i \in 1..Len(lines) :
        /\ i > NthEntry(at, k)
        /\ k < Cardinality(at) => i < NthEntry(at, k + 1)}

FirstLine(text) == IF Lines(text) = <<>> THEN <<>> ELSE Lines(text)[1]

C14_OneNumberedEntryPerResponse ==
    formatted # None =>
        IF responses = <<>>
        THEN formatted[1] = <<"No actions were executed.">>
        ELSE LET lines == Lines(formatted[1])
                 at == EntryAt(lines)
             IN /\ Cardinality(at) = Len(responses)
                /\ \A k \in 1..Len(responses) :
                      LET line == lines[NthEntry(at, k)]
                          errs == {i \in EntryBody(lines, at, k) : IsErrorLine(lines[i])}
                      IN /\ line[1] = ToString(k)
                         /\ line[3] = IF responses[k].success THEN CheckMark
                                      ELSE CrossMark
                         /\ SubSeq(line, 5, Len(line)) = FirstLine(responses[k].message)
                         /\ (errs # {}) <=> (responses[k].error # None)
                         /\ \A i \in errs :
                               lines[i] = <<"   Error: ">>
                                              \o FirstLine(responses[k].error[1])
                         /\ Cardinality(errs) <= 1

\* the two responses of the design's example have been formatted
C14_Witness ==
    /\ responses = <<AgentResponse_success(<<"ok">>, None),
                     AgentResponse_error(<<"bad">>, <<"why">>)>>
    /\ formatted # None
    /\ LET lines == Lines(formatted[1]) IN
       /\ Cardinality(EntryAt(lines)) = 2
       /\ \E i \in 1..Len(lines) : lines[i] = <<"   Error: ", "why">>

-----------------------------------------------------------------------------
(* C15: a path is restricted exactly when a restricted prefix is a prefix  *)
(* of it component by component: /etc itself and /etc/passwd are, while    *)
(* /etcetera/x, which only begins with the same characters, is not.        *)

ComponentPrefix(pre, p) ==
    /\ pre.abs = p.abs
    /\ \E n \in 0..Len(p.comps) : SubSeq(p.comps, 1, n) = pre.comps

UnderRestricted(p) ==
    \E r \in Range(capabilities.restricted_paths) : ComponentPrefix(r, p)

C15_RestrictedByComponents ==
    \A i \in Answered :
        (actions[i].kind \in PathKinds /\ GoverningFlag(capabilities, actions[i].kind)) =>
            LET p == resolve_path(current_directory, actions[i].path) IN
            /\ Refused(responses[i]) <=> UnderRestricted(p)
            /\ p = Abs(<<"etcetera", "x">>) => ~Refused(responses[i])
            /\ p = Abs(<<"etc">>) => Refused(responses[i])
            /\ p = Abs(<<"etc", "passwd">>) => Refused(responses[i])

\* /etcetera/x has been read although /etc is restricted
C15_Witness ==
    \E i \in Answered :
        /\ actions[i] = ReadFile(Abs(<<"etcetera", "x">>))
        /\ Abs(<<"etc">>) \in Range(capabilities.restricted_paths)
        /\ responses[i].success
        /\ responses[i].data = Some(<<"a">>)

-----------------------------------------------------------------------------
(* C16: the gate decides on the resolved path as it is written: an         *)
(* absolute path as given, a relative one appended to the working          *)
(* directory, `..` segments kept.  An action with a path that holds `..`   *)
(* and whose resolved path does not begin with a restricted prefix is let  *)
(* through and carried out on that path, also when the place the path      *)
(* leads to lies under a restricted prefix.                                *)

\* the path as written: the working directory, then the path, unless absolute
Written(a) ==
    IF a.path.abs THEN a.path
    ELSE Path(current_directory.abs, current_directory.comps \o a.path.comps)

\* the place in the initial filesystem a path leads to
LeadsTo(p) == Lookup(InitialFs, p).loc

C16_DotDotIsNotResolved ==
    \A i \in Answered :
        (/\ actions[i].kind \in PathKinds
         /\ GoverningFlag(capabilities, actions[i].kind)
         /\ ".." \in Range(actions[i].path.comps)
         /\ ~UnderRestricted(Written(actions[i])))
        => /\ ~Refused(responses[i])
           /\ EffectsOf(i) # {}
           /\ \A k \in EffectsOf(i) :
                 effects[k].op \in {"read_to_string", "write"} =>
                     effects[k].path = Written(actions[i])

\* /etc/passwd has been read through ../etc/passwd although /etc is restricted
C16_Witness ==
    \E i \in Answered :
        /\ actions[i] = ReadFile(Rel(<<"..", "etc", "passwd">>))
        /\ is_path_restricted(capabilities, Abs(LeadsTo(Written(actions[i]))))
        /\ LeadsTo(Written(actions[i])) = <<"etc", "passwd">>
        /\ responses[i].success
        /\ responses[i].data = Some(InitialFs[<<"etc", "passwd">>].content)

-----------------------------------------------------------------------------
(* C17: an ExecuteCommand is let through exactly when can_execute_commands *)
(* is set: the restricted paths and the directory the command is to run    *)
(* in, also one under a restricted prefix, have no part in the decision;   *)
(* the child is then started in the working_dir of the action, or in the   *)
(* working directory of the executor when the action names none.           *)

RunsIn(a) == IF a.working_dir # None THEN a.working_dir[1] ELSE current_directory

C17_CommandsOnlyNeedExecute ==
    /\ \A i \in Answered :
          actions[i].kind = "ExecuteCommand" =>
              (Refused(responses[i]) <=> ~capabilities.can_execute_commands)
    /\ \A k \in 1..Len(effects) :
          actions[effects[k].of].kind = "ExecuteCommand" =>
              /\ capabilities.can_execute_commands
              /\ effects[k].op = "spawn" => effects[k].path = RunsIn(actions[effects[k].of])
              /\ effects[k].by = "child" =>
                    effects[k].path = Abs(LeadsTo(RunsIn(actions[effects[k].of])))

\* `touch t` has run in /etc, a restricted directory, and left /etc/t
C17_Witness ==
    \E i \in Answered :
        /\ actions[i] = ExecuteCommand("touch t", Some(Abs(<<"etc">>)))
        /\ is_path_restricted(capabilities, Abs(<<"etc">>))
        /\ responses[i].success
        /\ Exists(fs, <<"etc", "t">>)
        /\ ~Exists(InitialFs, <<"etc", "t">>)

-----------------------------------------------------------------------------
(* C18: no step of a batch changes the configuration of the executor: the  *)
(* capability flags, the restricted paths and the working directory stay   *)
(* as they were, so every action of the batch is decided at every point    *)
(* of the batch as it was decided when it was answered.                    *)

C18_ConfigurationIsFixed ==
    [][ /\ capabilities' = capabilities
        /\ current_directory' = current_directory
        /\ \A i \in 1..Len(actions) :
              is_safe_action(capabilities', current_directory', actions[i])
                  = is_safe_action(capabilities, current_directory, actions[i])
        /\ \A i \in 1..Len(responses') :
              Refused(responses'[i])
                  <=> ~is_safe_action(capabilities', current_directory', actions'[i]) ]_vars

\* a batch of two has been answered, its first action having created a
\* directory under the working directory
C18_Witness ==
    /\ Len(responses) = 2
    /\ actions[1].kind = "CreateDirectory"
    /\ responses[1].success
    /\ fs # InitialFs
    /\ ~Refused(responses[2])

-----------------------------------------------------------------------------
(* C19: the actions of a message are those of its json block followed by   *)
(* those of its phrases: the phrases are read also when a json block gave  *)
(* actions, and an action that both give is kept twice.                    *)

ReadMainTwice ==
    <<Block("json", ArrayBody(<<ReadFile(Rel(<<"src", "main.rs">>))>>, 40))>>
        \o Words(<<"read", "the", "file", "src/main.rs">>)

C19_BothStrategiesConcatenated ==
    (pc # "idle" /\ message # None) =>
        LET text == message[1]
            structured == extract_json_actions(text)
            heuristic == extract_natural_language_actions(text)
        IN /\ actions = (IF structured = None THEN <<>> ELSE structured[1]) \o heuristic
           /\ text = ReadMainTwice =>
                 actions = <<ReadFile(Rel(<<"src", "main.rs">>)),
                             ReadFile(Rel(<<"src", "main.rs">>))>>

\* a message whose json block and whose phrase name the same ReadFile has
\* been parsed: the action is there twice
C19_Witness ==
    /\ message = Some(ReadMainTwice)
    /\ Len(actions) = 2
    /\ actions[1] = actions[2]
    /\ extract_json_actions(ReadMainTwice) # None
    /\ extract_natural_language_actions(ReadMainTwice) # <<>>

-----------------------------------------------------------------------------
(* C20: the actions of the json blocks of a message are those of the first *)
(* json block whose inner text parses as an array of actions or as one     *)
(* action: json blocks before it that do not parse are passed over, and    *)
(* the blocks after it add nothing.                                        *)

\* the first json block whose inner text serde_json accepts
RECURSIVE FirstParsing(_, _)
FirstParsing(text, i) ==
    IF i > Len(text) THEN <<>>
    ELSE IF /\ text[i].t = "block"
            /\ text[i].lang = "json"
            /\ text[i].body.shape \in {"array", "single"}
         THEN text[i].body.items
    ELSE FirstParsing(text, i + 1)

C20_FirstParsingBlockWins ==
    (pc # "idle" /\ message # None) =>
        LET structured == FirstParsing(message[1], 1) IN
        /\ Len(actions) = Len(structured) + Len(extract_natural_language_actions(message[1]))
        /\ SubSeq(actions, 1, Len(structured)) = structured

-----------------------------------------------------------------------------
(* C21: the heuristic strategy applies each of the nine pattern categories *)
(* to the whole text and every match of every category gives one action:   *)
(* after parsing a message of prose, each action occurs among the parsed   *)
(* actions as often as the matches of the nine categories produce it.      *)

\* the actions of the matches of category k in the text
CategoryActions(text, k) ==
    LET caps == captures_iter(text, patterns[k].re, 1) IN
    [i \in 1..Len(caps) |-> action_for(text, patterns[k].action_type, caps[i])]

RECURSIVE AllCategories(_, _)
AllCategories(text, k) ==
    IF k > Len(patterns) THEN <<>>
    ELSE CategoryActions(text, k) \o AllCategories(text, k + 1)

Count(seq, a) == Cardinality({i \in DOMAIN seq : seq[i] = a})

C21_EveryMatchOfEveryCategory ==
    (pc # "idle" /\ message # None /\ message[1] \in ProseMessages) =>
        LET expected == AllCategories(message[1], 1) IN
        /\ Len(actions) = Len(expected)
        /\ \A a \in Range(expected) : Count(actions, a) = Count(expected, a)

-----------------------------------------------------------------------------
(* C22: an authorized SearchFiles whose resolved directory cannot be       *)
(* listed (missing, not a directory) is answered success = true with       *)
(* "Found 0 matches", empty data and no error; otherwise its data holds,   *)
(* in some order, exactly the immediate entries of the directory whose     *)
(* file name contains the pattern as a case-sensitive substring, and the   *)
(* message counts them.                                                    *)

SearchesNow ==
    /\ pc = "loop"
    /\ Len(responses) < Len(actions)
    /\ Current.kind = "SearchFiles"
    /\ ~NotAllowed(Current)

SearchedDir ==
    resolve_path(current_directory,
                 IF Current.directory # None THEN Current.directory[1]
                 ELSE current_directory)

\* the names of the immediate entries of the directory at `loc` that
\* contain the pattern
Hits(f, loc, pattern) ==
    {c[Len(c)] : c \in {e \in Children(f, loc) :
                          Contains(Spell(e[Len(e)]), Spell(pattern))}}

C22_SearchSwallowsOrMatchesExactly ==
    [][ SearchesNow =>
          LET r == responses'[Len(responses')]
              listing == fs_read_dir(fs, SearchedDir)
          IN /\ Len(responses') = Len(responses) + 1
             /\ r.success
             /\ r.error = None
             /\ fs' = fs
             /\ IF ~listing.ok
                THEN /\ r.message = <<"Found ", "0", " matches for pattern '",
                                      Current.pattern, "'">>
                     /\ r.data = Some(<<>>)
                ELSE LET hits == Hits(fs, Lookup(fs, SearchedDir).loc, Current.pattern)
                     IN /\ r.message = <<"Found ", ToString(Cardinality(hits)),
                                         " matches for pattern '", Current.pattern, "'">>
                        /\ \E o \in Orders(hits) :
                              r.data = Some(JoinWith(
                                  [k \in 1..Len(o) |->
                                      Display(Join(SearchedDir, Rel(<<o[k]>>)))], "\n"))
       ]_vars

\* one batch in which a search of a missing directory was answered with
\* zero matches and a search of /w found f alone among its entries
C22_Witness ==
    \E i, j \in Answered :
        /\ actions[i] = SearchFiles("f", Some(Abs(<<"w", "zz">>)))
        /\ responses[i].success
        /\ responses[i].data = Some(<<>>)
        /\ responses[i].message[2] = "0"
        /\ actions[j] = SearchFiles("f", None)
        /\ responses[j].success
        /\ responses[j].data = Some(<<"/w/f">>)
        /\ Cardinality(Children(fs, <<"w">>)) > 1

-----------------------------------------------------------------------------
(* C23: CreateDirectory is idempotent: when an authorized CreateDirectory  *)
(* is executed directly after the same CreateDirectory, the second         *)
(* execution leaves the filesystem as the first left it and gives the      *)
(* response the first gave; a first success is followed by a second        *)
(* success.                                                                *)

CreatesAgain ==
    /\ pc = "loop"
    /\ 0 < Len(responses)
    /\ Len(responses) < Len(actions)
    /\ Current.kind = "CreateDirectory"
    /\ actions[Len(responses)] = Current
    /\ ~NotAllowed(Current)

C23_CreateDirectoryIdempotent ==
    [][ CreatesAgain =>
          /\ fs' = fs
          /\ Len(responses') = Len(responses) + 1
          /\ responses[Len(responses)].success => responses'[Len(responses')].success
          /\ responses'[Len(responses')] = responses[Len(responses)] ]_vars

\* a directory and its parent were created by the first of two equal
\* CreateDirectory actions, and both were answered with success
C23_Witness ==
    /\ Len(responses) = 2
    /\ actions = <<CreateDirectory(Rel(<<"a", "b">>)), CreateDirectory(Rel(<<"a", "b">>))>>
    /\ responses[1].success
    /\ responses[2].success
    /\ IsDirAt(fs, <<"w", "a", "b">>)
    /\ ~Exists(InitialFs, <<"w", "a">>)

-----------------------------------------------------------------------------
(* C24: when the creation of the parent directories of a WriteFile target  *)
(* fails, the response is an error with the message "Failed to create      *)
(* parent directories" and no write of the target is attempted; a write    *)
(* that fails is answered with the other message, "Failed to write         *)
(* file: <path>".                                                          *)

CallsOf(i, op) == {k \in EffectsOf(i) : effects[k].op = op}

ParentsFailed(i) == \E k \in CallsOf(i, "create_dir_all") : ~effects[k].ok

WriteFailed(i) == \E k \in CallsOf(i, "write") : ~effects[k].ok

C24_ParentFailureIsDistinct ==
    \A i \in Answered :
        actions[i].kind = "WriteFile" =>
            /\ ParentsFailed(i) =>
                  /\ ~responses[i].success
                  /\ responses[i].message = <<"Failed to create parent directories">>
                  /\ responses[i].error # None
                  /\ CallsOf(i, "write") = {}
            /\ WriteFailed(i) =>
                  /\ ~responses[i].success
                  /\ responses[i].message =
                        <<"Failed to write file: ",
                          Display(resolve_path(current_directory, actions[i].path))>>
                  /\ responses[i].message # <<"Failed to create parent directories">>

\* a WriteFile below a regular file: the parents could not be created, the
\* file was not written
C24_Witness ==
    \E i \in Answered :
        /\ actions[i] = WriteFile(Abs(<<"w", "f", "h">>), <<"x">>)
        /\ ParentsFailed(i)
        /\ responses[i].message = <<"Failed to create parent directories">>
        /\ CallsOf(i, "write") = {}
        /\ fs = InitialFs

-----------------------------------------------------------------------------
(* C25: with can_execute_commands off and every path of the batch absolute *)
(* and free of `..`, no entry at or below a restricted prefix is created,  *)
(* modified or removed by any sequence of executed actions: the restricted *)
(* subtrees stay as they were.                                             *)

PlainAbsolute(p) == p.abs /\ ".." \notin Range(p.comps)

PlainPaths(a) ==
    CASE a.kind \in PathKinds      -> PlainAbsolute(a.path)
      [] a.kind = "SearchFiles"    ->
            a.directory # None => PlainAbsolute(a.directory[1])
      [] a.kind = "ExecuteCommand" ->
            a.working_dir # None => PlainAbsolute(a.working_dir[1])

C25_RestrictedSubtreesUnchanged ==
    (/\ ~capabilities.can_execute_commands
     /\ PlainAbsolute(current_directory)
     /\ \A i \in 1..Len(actions) : PlainPaths(actions[i])) =>
        \A loc \in DOMAIN InitialFs \cup DOMAIN fs :
            UnderRestricted(Abs(loc)) =>
                /\ Exists(fs, loc) <=> Exists(InitialFs, loc)
                /\ Exists(fs, loc) => fs[loc] = InitialFs[loc]

-----------------------------------------------------------------------------
(* C26: when can_modify_filesystem and can_execute_commands are off, no    *)
(* sequence of executed actions creates a directory or removes an entry,   *)
(* whatever can_read_files and can_write_files are: every entry the        *)
(* filesystem had is still there and every directory was there before.     *)

C26_NoModifyNoStructureChange ==
    (~capabilities.can_modify_filesystem /\ ~capabilities.can_execute_commands) =>
        /\ \A loc \in DOMAIN InitialFs : Exists(fs, loc)
        /\ \A loc \in DOMAIN fs : IsDirAt(fs, loc) => IsDirAt(InitialFs, loc)

-----------------------------------------------------------------------------
(* C27: the heuristic strategy emits its actions grouped by pattern        *)
(* category, in the order of the categories (read, write, create, save,    *)
(* delete, remove, list, execute, run), and in text order only within one  *)
(* category; the actions are executed in the emitted order.  An intent     *)
(* that stands earlier in the text but belongs to a later category is      *)
(* therefore executed later: "delete the file f ... save to f" writes f    *)
(* before it deletes it.                                                   *)

\* the matches of one expression, left to right and without overlap, each
\* with the place in the text where it starts
RECURSIVE MatchesWithStart(_, _, _)
MatchesWithStart(text, re, pos) ==
    IF pos > Len(text) THEN {}
    ELSE LET m == MatchFrom(text, re, 1, pos) IN
         IF m.ok THEN {[start |-> pos, target |-> m.target]}
                        \cup MatchesWithStart(text, re, m.end)
         ELSE MatchesWithStart(text, re, pos + 1)

\* every match of every category whose expression is accepted
Occurrences(text) ==
    UNION {{[category |-> k, start |-> m.start, target |-> m.target] :
               m \in MatchesWithStart(text, patterns[k].re, 1)} :
           k \in {c \in 1..Len(patterns) : regex_compiles(patterns[c])}}

\* category first, place in the text second
Precedes(a, b) ==
    \/ a.category < b.category
    \/ a.category = b.category /\ a.start < b.start

C27_GroupedByCategory ==
    (pc # "idle" /\ message # None /\ message[1] \in ProseMessages) =>
        \* the parsed actions, in the state the parser leaves
        /\ (pc = "loop" /\ responses = <<>>) =>
              LET text == message[1]
                  occ == Occurrences(text)
                  rank(o) == 1 + Cardinality({q \in occ : Precedes(q, o)})
              IN /\ Len(actions) = Cardinality(occ)
                 /\ \A o \in occ :
                       actions[rank(o)] =
                          action_for(text, patterns[o.category].action_type, o.target)
        \* their execution
        /\ \A k, l \in 1..Len(effects) : k < l => effects[k].of <= effects[l].of
        /\ \A i \in Answered : BelongsTo(responses[i], actions[i])

\* the delete stands first in the text and the save second; the write was
\* executed first and the delete second, so the file is gone
C27_Witness ==
    /\ message = Some(Words(<<"delete", "the", "file", "f">>) \o Words(<<"save", "to", "f">>))
    /\ actions = <<WriteFile(Rel(<<"f">>), Placeholder), DeleteFile(Rel(<<"f">>))>>
    /\ Len(responses) = 2
    /\ responses[1].success
    /\ responses[2].success
    /\ ~Exists(fs, <<"w", "f">>)

-----------------------------------------------------------------------------
(* C28: for every authorized action with a path, under every working       *)
(* directory the constructor accepts, the path the dispatch step operates  *)
(* on is the path authorization tested against the restricted prefixes     *)
(* (for a WriteFile also its parent, which is created first); this         *)
(* includes a SearchFiles without a directory, where authorization tests   *)
(* the working directory and dispatch lists resolve(working directory).    *)

DispatchesNow ==
    /\ pc = "loop"
    /\ Len(responses) < Len(actions)
    /\ Current.kind # "ExecuteCommand"
    /\ ~denied(capabilities, current_directory, Current)

C28_DispatchTargetIsTestedPath ==
    [][ DispatchesNow =>
          LET tested == tested_path(current_directory, Current)
              calls == SubSeq(effects', Len(effects) + 1, Len(effects'))
          IN /\ calls # <<>>
             /\ \A k \in DOMAIN calls :
                   \/ calls[k].path = tested[1]
                   \/ /\ Current.kind = "WriteFile"
                      /\ calls[k].op = "create_dir_all"
                      /\ Some(calls[k].path) = ParentPath(tested[1]) ]_vars

-----------------------------------------------------------------------------
(* C29: a WriteFile that is answered with success = false leaves the       *)
(* filesystem exactly as it was before the action; in particular no        *)
(* directory created for the parents remains when the write then fails.    *)

C29_FailedWriteLeavesNoTrace ==
    [][ (/\ pc = "loop"
         /\ Len(responses) < Len(actions)
         /\ Current.kind = "WriteFile"
         /\ Len(responses') = Len(responses) + 1
         /\ ~responses'[Len(responses')].success) => fs' = fs ]_vars

-----------------------------------------------------------------------------
(* C30: process_agent_message over any AgentExecutor: when execute_action  *)
(* returns Err for the k-th action of a batch, the call returns that Err:  *)
(* the k-1 responses produced so far are not returned, no action from the  *)
(* k-th on is executed, and what the first k-1 actions did remains.  Ok is *)
(* returned only with one response for every action.                       *)

C30_ErrEndsTheBatch ==
    /\ [](pc = "done" => Len(responses) = Len(actions))
    /\ [](pc = "failed" => responses = <<>>)
    /\ [][ /\ (pc = "loop" /\ pc' = "failed") =>
                /\ fs' = fs
                /\ effects' = effects
                /\ spawned' = spawned
                /\ \A k \in 1..Len(effects) : effects[k].of <= Len(responses)
           /\ pc = "failed" =>
                /\ pc' = "failed"
                /\ fs' = fs
                /\ effects' = effects
                /\ spawned' = spawned ]_vars

\* the first action created /w/n, the second was answered with Err: the
\* directory is there, the file the second would have deleted is too, and
\* no response is left
C30_Witness ==
    /\ pc = "failed"
    /\ actions = <<CreateDirectory(Rel(<<"n">>)), DeleteFile(Abs(<<"w", "f">>))>>
    /\ responses = <<>>
    /\ \E k \in 1..Len(effects) : effects[k].of = 1 /\ effects[k].ok
    /\ \A k \in 1..Len(effects) : effects[k].of = 1
    /\ IsDirAt(fs, <<"w", "n">>)
    /\ Exists(fs, <<"w", "f">>)

=============================================================================
